---- MODULE Spec2Model ----
(***************************************************************************)
(* RAGVersion: the change detector (ragversion/detector.py), the tracker   *)
(* (ragversion/tracker.py) and the embedded storage backend                *)
(* (ragversion/storage/sqlite.py) as a state machine.                      *)
(*                                                                         *)
(* A file of the content source is what the Content Reader yields for it:  *)
(* its parsed text, its byte size, and whether parsing succeeds.  A        *)
(* Document is keyed by its path (documents.file_path is UNIQUE), a        *)
(* Version by (document, version_number) (UNIQUE in the versions table).   *)
(***************************************************************************)
EXTENDS Integers, Sequences, FiniteSets, TLC

\* ------------------------------------------------------------------ bounds

\* An operation that could store a Version is taken only while fewer than
\* MaxVersions Version rows are stored and the document's current_version is
\* below MaxVersions.
MaxVersions == 3

\* At most MaxFaults storage calls of a behaviour are made to raise.
MaxFaults == 1

\* track_directory is called with max_workers in 0..MaxWorkers.
MaxWorkers == 2

\* ------------------------------------------------------- program constants

\* ChangeDetector.__init__: max_file_size_mb defaults to 50.
max_file_size_mb == 50

\* ChangeDetector.__init__: max_file_size_bytes = max_file_size_mb * 1024 * 1024.
max_file_size_bytes == max_file_size_mb * 1024 * 1024

\* The attributes ChangeDetector.__init__ sets on the instance: the argument
\* max_file_size_mb is kept only as max_file_size_bytes.
ChangeDetectorAttributes ==
    {"storage", "store_content", "max_file_size_bytes", "hash_algorithm"}

\* ------------------------------------------------------------- the inputs

Paths == {"a.txt", "b.txt"}

Contents == {"", "hello", "hello world"}

NoFile == [exists |-> FALSE, content |-> "", size |-> 0, readable |-> FALSE]

\* A readable text file holding c: its size is the byte length of c.
TextFile(c) == [exists |-> TRUE, content |-> c, size |-> Len(c), readable |-> TRUE]

\* A file over the size ceiling, and a file whose parser fails.
HugeFile ==
    [exists |-> TRUE, content |-> "hello", size |-> max_file_size_bytes + 1,
     readable |-> TRUE]

CorruptFile == [exists |-> TRUE, content |-> "", size |-> 7, readable |-> FALSE]

FileStates == {TextFile(c) : c \in Contents} \cup {HugeFile, CorruptFile}

\* ------------------------------------------------------------ the records

NoHash == "none"

\* ChangeDetector._compute_hash: the hex digest of the content, distinct for
\* distinct contents and never the absent hash.
_compute_hash(content) == "sha256:" \o content

NoDoc ==
    [exists |-> FALSE, content_hash |-> NoHash, file_size |-> 0,
     version_count |-> 0, current_version |-> 0]

Document(content_hash, file_size, version_count, current_version) ==
    [exists |-> TRUE, content_hash |-> content_hash, file_size |-> file_size,
     version_count |-> version_count, current_version |-> current_version]

\* models.Version; restored_from is metadata["restored_from_version"], 0 when unset.
Version(document_id, version_number, content_hash, file_size, change_type, restored_from) ==
    [document_id |-> document_id, version_number |-> version_number,
     content_hash |-> content_hash, file_size |-> file_size,
     change_type |-> change_type, restored_from |-> restored_from]

\* A Version's id: one per (document, version_number) row.
VersionId(v) == <<v.document_id, v.version_number>>

NoEvent ==
    [change_type |-> "none", document_id |-> "", version_number |-> 0,
     content_hash |-> NoHash, previous_hash |-> NoHash, file_size |-> 0,
     file_path |-> ""]

ChangeEvent(document_id, file_path, change_type, version_number, content_hash, previous_hash, file_size) ==
    [change_type |-> change_type, document_id |-> document_id,
     version_number |-> version_number, content_hash |-> content_hash,
     previous_hash |-> previous_hash, file_size |-> file_size,
     file_path |-> file_path]

\* --------------------------------------------------------------- the state

VARIABLES
    fs,             \* the content source: path -> file
    documents,      \* documents table: path -> Document or NoDoc
    versions,       \* versions table: a set of Version rows
    content,        \* content_snapshots table: version id -> text
    store_content,  \* ChangeDetector.store_content
    last,           \* the last operation and what it returned or raised
    faults,         \* how many storage calls were made to raise so far
    batch,          \* the track_directory call: its arguments, files, progress
    sem,            \* the semaphore's value: permits left
    workers,        \* process_file task i: its position
    successful,     \* track_directory's list of ChangeEvents
    failed,         \* track_directory's list of FileProcessingErrors
    callbacks,      \* AsyncVersionTracker._callbacks: the listeners, in order
    notification_manager,   \* whether a notification manager is configured
    emit,           \* the _emit_event call under way: its position, its event
    invoked,        \* every listener invocation made so far, in order
    executing,      \* the listener invocations that are running right now
    chunk_call,     \* the arguments of the detect_chunk_changes call
    chunk_diff,     \* the ChunkDiff it returned (<<>> before it returned)
    chunk_tracking_enabled, \* AsyncVersionTracker.chunk_tracking_enabled
    chunks,         \* chunks table as the connection sees it: a set of Chunk rows
    uncommitted,    \* the chunk rows of the connection's open transaction
    backend,        \* the storage backend the tracker was built with
    initialized,    \* AsyncVersionTracker._initialized
    timeline        \* the ids of the stored Versions, by created_at, oldest first

batchvars == <<batch, sem, workers, successful, failed>>

emitvars == <<callbacks, notification_manager, emit, invoked, executing>>

chunkvars == <<chunk_call, chunk_diff, chunk_tracking_enabled, chunks, uncommitted>>

lifevars == <<backend, initialized, timeline>>

vars == <<fs, documents, versions, content, store_content, last, faults,
          batch, sem, workers, successful, failed,
          callbacks, notification_manager, emit, invoked, executing,
          chunk_call, chunk_diff, chunk_tracking_enabled, chunks, uncommitted,
          backend, initialized, timeline>>

\* The three tables as one value, as the storage calls pass it along.
DB == [documents |-> documents, versions |-> versions, content |-> content]

\* The fault a call runs under: the storage call of that name raises.
NoFault == "none"

Faults == {"create_document", "update_document", "create_version", "store_content"}

\* ------------------------------------------------- storage (sqlite backend)

StorageResult(db, raised) == [db |-> db, raised |-> raised]

\* Python truth of an optional text (<<>> is None): None and "" are both false.
Truthy(opt) == opt # <<>> /\ opt[1] # ""

\* SQLiteStorage.get_document_by_path / get_document (the path is the id).
get_document_by_path(db, file_path) == db.documents[file_path]

\* SQLiteStorage.get_version_by_number: the rows of that number (at most one).
get_version_by_number(db, document_id, version_number) ==
    {v \in db.versions :
        v.document_id = document_id /\ v.version_number = version_number}

\* SQLiteStorage.get_content: <<>> when the version has no snapshot row.
get_content(db, version_id) ==
    IF version_id \in DOMAIN db.content THEN <<db.content[version_id]>> ELSE <<>>

\* SQLiteStorage.create_document: INSERT, file_path UNIQUE.
create_document(db, file_path, document, fault) ==
    IF fault = "create_document" \/ db.documents[file_path].exists
    THEN StorageResult(db, "StorageError")
    ELSE StorageResult(
            [db EXCEPT !.documents = [@ EXCEPT ![file_path] = document]], "none")

\* SQLiteStorage.update_document: UPDATE ... WHERE id = ?; no row is
\* DocumentNotFoundError.
update_document(db, file_path, document, fault) ==
    IF fault = "update_document"
    THEN StorageResult(db, "StorageError")
    ELSE IF ~db.documents[file_path].exists
         THEN StorageResult(db, "DocumentNotFoundError")
         ELSE StorageResult(
                [db EXCEPT !.documents = [@ EXCEPT ![file_path] = document]], "none")

\* SQLiteStorage.store_content: INSERT OR REPLACE into content_snapshots.
store_content_row(db, version_id, text, fault) ==
    IF fault = "store_content"
    THEN StorageResult(db, "StorageError")
    ELSE StorageResult(
            [db EXCEPT !.content = (version_id :> text) @@ @], "none")

\* SQLiteStorage.create_version: INSERT the row ((document_id, version_number)
\* UNIQUE, document_id a foreign key), then store the content if it is truthy.
\* A failure after the INSERT leaves the row in the connection: nothing rolls
\* it back.
create_version(db, version, opt_content, fault) ==
    IF \/ fault = "create_version"
       \/ ~db.documents[version.document_id].exists
       \/ get_version_by_number(db, version.document_id, version.version_number) # {}
    THEN StorageResult(db, "StorageError")
    ELSE LET inserted == [db EXCEPT !.versions = @ \cup {version}]
         IN  IF Truthy(opt_content)
             THEN store_content_row(inserted, VersionId(version), opt_content[1], fault)
             ELSE StorageResult(inserted, "none")

\* ------------------------------------------------------------ the detector

Outcome(db, raised, event) == [db |-> db, raised |-> raised, event |-> event]

\* content if self.store_content else None
StoredContent(text) == IF store_content THEN <<text>> ELSE <<>>

\* new_version_number = existing_doc.current_version + 1
NextVersionNumberStuck(doc) == doc.current_version

NextVersionNumber(doc) == doc.current_version + 1

\* The Document _handle_creation builds: version_count = 1, current_version = 1.
CreationDocument(content_hash, file_size) == Document(content_hash, file_size, 1, 1)

\* elif existing_doc.content_hash != content_hash
HashChanged(existing_doc, content_hash) == existing_doc.content_hash # content_hash

\* ChangeDetector._handle_creation
_handle_creation(db, file_path, text, content_hash, file_size, fault) ==
    LET document == CreationDocument(content_hash, file_size)
        r1 == create_document(db, file_path, document, fault)
        version == Version(file_path, 1, content_hash, file_size, "created", 0)
        r2 == create_version(r1.db, version, StoredContent(text), fault)
    IN  IF r1.raised # "none" THEN Outcome(r1.db, r1.raised, NoEvent)
        ELSE IF r2.raised # "none" THEN Outcome(r2.db, r2.raised, NoEvent)
        ELSE Outcome(r2.db, "none",
                ChangeEvent(file_path, file_path, "created", 1, content_hash,
                            NoHash, file_size))

\* The Document _handle_modification writes back: the new hash and size,
\* version_count and current_version bumped.
ModificationDocument(existing_doc, content_hash, file_size, new_version_number) ==
    Document(content_hash, file_size,
             existing_doc.version_count + 1, new_version_number)

\* The previous_hash a modification's event carries: the code reads
\* existing_doc.content_hash after it has assigned the new hash to it.
ModificationPreviousHash(old_doc, mutated_doc) == mutated_doc.content_hash

\* ChangeDetector._handle_modification: the document row is updated first,
\* the version row created second.
_handle_modification(db, file_path, existing_doc, text, content_hash, file_size, fault) ==
    LET new_version_number == NextVersionNumber(existing_doc)
        mutated == ModificationDocument(existing_doc, content_hash, file_size,
                                        new_version_number)
        r1 == update_document(db, file_path, mutated, fault)
        version == Version(file_path, new_version_number, content_hash, file_size,
                           "modified", 0)
        r2 == create_version(r1.db, version, StoredContent(text), fault)
    IN  IF r1.raised # "none" THEN Outcome(r1.db, r1.raised, NoEvent)
        ELSE IF r2.raised # "none" THEN Outcome(r2.db, r2.raised, NoEvent)
        ELSE Outcome(r2.db, "none",
                ChangeEvent(file_path, file_path, "modified", new_version_number,
                            content_hash,
                            ModificationPreviousHash(existing_doc, mutated),
                            file_size))

\* The Document _handle_deletion writes back: version_count and
\* current_version bumped, content_hash and file_size as they were.
DeletionDocumentCleared(existing_doc, new_version_number) ==
    [existing_doc EXCEPT !.version_count = @ + 1,
                         !.current_version = new_version_number,
                         !.content_hash = NoHash]

DeletionDocument(existing_doc, new_version_number) ==
    [existing_doc EXCEPT !.version_count = @ + 1,
                         !.current_version = new_version_number]

\* ChangeDetector._handle_deletion: the version row is created first, the
\* document row updated second.
_handle_deletion(db, file_path, existing_doc, fault) ==
    LET new_version_number == NextVersionNumber(existing_doc)
        version == Version(file_path, new_version_number, existing_doc.content_hash,
                           0, "deleted", 0)
        r1 == create_version(db, version, <<>>, fault)
        mutated == DeletionDocument(existing_doc, new_version_number)
        r2 == update_document(r1.db, file_path, mutated, fault)
    IN  IF r1.raised # "none" THEN Outcome(r1.db, r1.raised, NoEvent)
        ELSE IF r2.raised # "none" THEN Outcome(r2.db, r2.raised, NoEvent)
        ELSE Outcome(r2.db, "none",
                ChangeEvent(file_path, file_path, "deleted", new_version_number,
                            mutated.content_hash, mutated.content_hash, 0))

\* detect_change on a missing path with no Document: `return None`.
MissingUntrackedAsDeletion(db, file_path, fault) ==
    _handle_deletion(db, file_path, NoDoc, fault)

MissingUntracked(db, file_path, fault) == Outcome(db, "none", NoEvent)

\* ChangeDetector.detect_change on a path whose file is `file`.
detect_change(db, file_path, file, fault) ==
    LET existing_doc == get_document_by_path(db, file_path)
        content_hash == _compute_hash(file.content)
    IN  IF ~file.exists
        THEN IF existing_doc.exists
             THEN _handle_deletion(db, file_path, existing_doc, fault)
             ELSE MissingUntracked(db, file_path, fault)
        ELSE IF file.size > max_file_size_bytes
        THEN Outcome(db, "ParsingError", NoEvent)
        ELSE IF ~file.readable
        THEN Outcome(db, "ParsingError", NoEvent)
        ELSE IF ~existing_doc.exists
        THEN _handle_creation(db, file_path, file.content, content_hash,
                              file.size, fault)
        ELSE IF HashChanged(existing_doc, content_hash)
        THEN _handle_modification(db, file_path, existing_doc, file.content,
                                  content_hash, file.size, fault)
        ELSE Outcome(db, "none", NoEvent)

\* What ChangeDetector.restore_version leaves: the outcome and the file it
\* wrote (written is <<>> when it wrote none).
RestoreOutcomeGeneric(db, raised, event, written) ==
    [db |-> db, raised |-> IF raised = "none" THEN "none" ELSE "Exception",
     event |-> event, written |-> written]

RestoreOutcome(db, raised, event, written) ==
    [db |-> db, raised |-> raised, event |-> event, written |-> written]

\* The Version restore_version builds: the next number, the hash and size of
\* the restored version, change_type RESTORED, the source in its metadata.
RestorationVersionUnmarked(document_id, new_version_number, version, version_number) ==
    Version(document_id, new_version_number, version.content_hash,
            version.file_size, "restored", 0)

RestorationVersion(document_id, new_version_number, version, version_number) ==
    Version(document_id, new_version_number, version.content_hash,
            version.file_size, "restored", version_number)

\* ChangeDetector.restore_version; target_path "" is None.  The file is
\* written before the version row is created and the document row updated.
restore_version(db, document_id, version_number, target_path, fault) ==
    LET document == get_document_by_path(db, document_id)
        found == get_version_by_number(db, document_id, version_number)
        version == CHOOSE v \in found : TRUE
        text == get_content(db, VersionId(version))
        restore_path == IF target_path # "" THEN target_path ELSE document_id
        new_version_number == NextVersionNumber(document)
        restored == RestorationVersion(document_id, new_version_number, version,
                                       version_number)
        r1 == create_version(db, restored, StoredContent(text[1]), fault)
        mutated == Document(version.content_hash, version.file_size,
                            document.version_count + 1, new_version_number)
        r2 == update_document(r1.db, document_id, mutated, fault)
    IN  IF ~document.exists
        THEN RestoreOutcome(db, "DocumentNotFoundError", NoEvent, <<>>)
        ELSE IF found = {}
        THEN RestoreOutcome(db, "VersionNotFoundError", NoEvent, <<>>)
        ELSE IF ~Truthy(text)
        THEN RestoreOutcome(db, "Exception", NoEvent, <<>>)
        ELSE IF r1.raised # "none"
        THEN RestoreOutcome(r1.db, r1.raised, NoEvent, <<restore_path, TextFile(text[1])>>)
        ELSE IF r2.raised # "none"
        THEN RestoreOutcome(r2.db, r2.raised, NoEvent, <<restore_path, TextFile(text[1])>>)
        ELSE RestoreOutcome(r2.db, "none",
                ChangeEvent(document_id, restore_path, "restored", new_version_number,
                            version.content_hash, mutated.content_hash,
                            version.file_size),
                <<restore_path, TextFile(text[1])>>)

\* ------------------------------------------------------------- the tracker

\* What a tracker call leaves in `last`: TrackResult's fields, or what it raised.
Result(op, path, raised, changed, was_tracked, version_number, event, emitted) ==
    [op |-> op, path |-> path, raised |-> raised, changed |-> changed,
     was_tracked |-> was_tracked, version_number |-> version_number,
     event |-> event, emitted |-> emitted]

TrackOutcome(db, result) == [db |-> db, result |-> result]

\* Whether track lets a missing path through to the detector.  It does not:
\* `if not path.exists(): raise FileNotFoundError`.
TrackRefusesMissingPath == TRUE

\* AsyncVersionTracker.track.  The path must exist; the size ceiling is then
\* computed from self.detector.max_file_size_mb, an attribute the detector
\* does not have, and reading it raises AttributeError before the storage or
\* the detector is asked.  Past that line: the size check, the Document row,
\* detect_change, the event emitted to the listeners, the TrackResult.
track(db, file_path, file, fault) ==
    LET existing_doc == get_document_by_path(db, file_path)
        was_tracked == existing_doc.exists
        current_version == IF existing_doc.exists THEN existing_doc.current_version ELSE 0
        d == detect_change(db, file_path, file, fault)
    IN  IF ~file.exists /\ TrackRefusesMissingPath
        THEN TrackOutcome(db, Result("track", file_path, "FileNotFoundError", FALSE,
                                     FALSE, 0, NoEvent, FALSE))
        ELSE IF "max_file_size_mb" \notin ChangeDetectorAttributes
        THEN TrackOutcome(db, Result("track", file_path, "AttributeError", FALSE,
                                     FALSE, 0, NoEvent, FALSE))
        ELSE IF file.size > max_file_size_mb * 1024 * 1024
        THEN TrackOutcome(db, Result("track", file_path, "ValueError", FALSE,
                                     FALSE, 0, NoEvent, FALSE))
        ELSE IF d.raised # "none"
        THEN TrackOutcome(d.db, Result("track", file_path, d.raised, FALSE,
                                       was_tracked, 0, NoEvent, FALSE))
        ELSE IF d.event # NoEvent
        THEN TrackOutcome(d.db, Result("track", file_path, "none", TRUE, was_tracked,
                                       d.event.version_number, d.event, TRUE))
        ELSE TrackOutcome(d.db, Result("track", file_path, "none", FALSE, was_tracked,
                                       current_version, NoEvent, FALSE))

\* ------------------------------------------------------------- the actions

Idle == Result("init", "", "none", FALSE, FALSE, 0, NoEvent, FALSE)

\* No track_directory call has been made.
NoBatch ==
    [pc |-> "idle", files |-> <<>>, total_files |-> 0, max_workers |-> 0,
     on_error |-> "continue", result |-> <<>>]

\* No _emit_event call is under way.
NoEmission == [pc |-> "idle", event |-> NoEvent, i |-> 0, failures |-> {}, result |-> Idle]

\* A tracker without listeners and without a notification manager.
NoListeners ==
    /\ callbacks = <<>>
    /\ notification_manager = FALSE
    /\ emit = NoEmission
    /\ invoked = <<>>
    /\ executing = {}

\* No detect_chunk_changes call has been made.
NoChunkCall ==
    [old_version_id |-> "none", old_chunks |-> <<>>, new_texts |-> <<>>]

NoChunking ==
    /\ chunk_call = NoChunkCall
    /\ chunk_diff = <<>>
    /\ chunks = {}
    /\ uncommitted = {}

\* A tracker on the embedded backend after initialize(); the creation times
\* of the Versions matter to cleanup_by_age alone and are kept by the
\* operations that run beside it.
Opened ==
    /\ backend = "sqlite"
    /\ initialized = TRUE
    /\ timeline = <<>>

Init ==
    /\ fs = [p \in Paths |-> NoFile]
    /\ documents = [p \in Paths |-> NoDoc]
    /\ versions = {}
    /\ content = <<>>
    /\ store_content \in BOOLEAN
    /\ last = Idle
    /\ faults = 0
    /\ batch = NoBatch
    /\ sem = 0
    /\ workers = <<>>
    /\ successful = <<>>
    /\ failed = <<>>
    /\ NoListeners
    /\ NoChunking
    /\ chunk_tracking_enabled = FALSE
    /\ Opened

\* The operations that may store a new Version stay within MaxVersions.
WithinBound(p) ==
    /\ Cardinality(versions) < MaxVersions
    /\ documents[p].current_version < MaxVersions

Commit(db) ==
    /\ documents' = db.documents
    /\ versions' = db.versions
    /\ content' = db.content

\* The environment writes, replaces or removes a file: not a call of the
\* program, so `last` names no path.
WriteFile(p, f) ==
    /\ fs[p] # f
    /\ fs' = [fs EXCEPT ![p] = f]
    /\ last' = Result("write", "", "none", FALSE, FALSE, 0, NoEvent, FALSE)
    /\ UNCHANGED <<documents, versions, content, store_content, faults>>
    /\ UNCHANGED batchvars
    /\ UNCHANGED emitvars
    /\ UNCHANGED chunkvars
    /\ UNCHANGED lifevars

RemoveFile(p) ==
    /\ fs[p].exists
    /\ fs' = [fs EXCEPT ![p] = NoFile]
    /\ last' = Result("remove", "", "none", FALSE, FALSE, 0, NoEvent, FALSE)
    /\ UNCHANGED <<documents, versions, content, store_content, faults>>
    /\ UNCHANGED batchvars
    /\ UNCHANGED emitvars
    /\ UNCHANGED chunkvars
    /\ UNCHANGED lifevars

\* A caller runs AsyncVersionTracker.track(p).
Track(p) ==
    /\ LET t == track(DB, p, fs[p], NoFault)
       IN  Commit(t.db) /\ last' = t.result
    /\ UNCHANGED <<fs, store_content, faults>>
    /\ UNCHANGED batchvars
    /\ UNCHANGED emitvars
    /\ UNCHANGED chunkvars
    /\ UNCHANGED lifevars

\* A caller runs ChangeDetector.detect_change(p) itself.  The storage calls
\* that wrote end with db.commit(), which also commits what an earlier failed
\* call left in the connection's transaction.
DetectUnder(p, fault) ==
    /\ WithinBound(p)
    /\ LET d == detect_change(DB, p, fs[p], fault)
       IN  /\ Commit(d.db)
           /\ last' = Result("detect_change", p, d.raised, d.event # NoEvent,
                             documents[p].exists, d.event.version_number, d.event, FALSE)
           /\ uncommitted' = IF d.raised = "none" /\ d.event # NoEvent
                             THEN {} ELSE uncommitted
    /\ faults' = IF fault = NoFault THEN faults ELSE faults + 1
    /\ UNCHANGED <<fs, store_content>>
    /\ UNCHANGED batchvars
    /\ UNCHANGED emitvars
    /\ UNCHANGED <<chunk_call, chunk_diff, chunk_tracking_enabled, chunks>>
    /\ UNCHANGED lifevars

\* A caller runs AsyncVersionTracker.restore_version(p, n, target), callbacks on.
RestoreUnder(p, n, target, fault) ==
    /\ WithinBound(p)
    /\ LET r == restore_version(DB, p, n, target, fault)
       IN  /\ Commit(r.db)
           /\ fs' = IF r.written = <<>> THEN fs
                    ELSE [fs EXCEPT ![r.written[1]] = r.written[2]]
           /\ last' = Result("restore_version", p, r.raised, r.event # NoEvent,
                             documents[p].exists, n, r.event, r.event # NoEvent)
    /\ faults' = IF fault = NoFault THEN faults ELSE faults + 1
    /\ UNCHANGED store_content
    /\ UNCHANGED batchvars
    /\ UNCHANGED emitvars
    /\ UNCHANGED chunkvars
    /\ UNCHANGED lifevars

\* The version numbers a caller asks restore_version for: those of the
\* document's stored versions and the next one, which is not stored.
RestoreNumbers(p) ==
    {v.version_number : v \in {w \in versions : w.document_id = p}}
        \cup {documents[p].current_version + 1}

Detect(p) == DetectUnder(p, NoFault)

Restore(p, n, target) == RestoreUnder(p, n, target, NoFault)

Next ==
    \/ \E p \in Paths, f \in FileStates : WriteFile(p, f)
    \/ \E p \in Paths : RemoveFile(p)
    \/ \E p \in Paths : Track(p)
    \/ \E p \in Paths : Detect(p)
    \/ \E p \in Paths : \E n \in RestoreNumbers(p), target \in (Paths \ {p}) \cup {""} :
            Restore(p, n, target)

Spec == Init /\ [][Next]_vars

\* The operations that reach the storage, with one storage call of the
\* operation raising.
DetectFaulty(p) == faults < MaxFaults /\ \E fault \in Faults : DetectUnder(p, fault)

RestoreFaulty(p, n, target) ==
    faults < MaxFaults /\ \E fault \in Faults : RestoreUnder(p, n, target, fault)

\* The paths the operations with a failing storage call are run on.
FaultPaths == {"a.txt"}

NextFault ==
    \/ \E p \in FaultPaths, f \in FileStates : WriteFile(p, f)
    \/ \E p \in FaultPaths : RemoveFile(p)
    \/ \E p \in FaultPaths : Track(p)
    \/ \E p \in FaultPaths : Detect(p)
    \/ \E p \in FaultPaths : \E n \in RestoreNumbers(p), target \in (Paths \ {p}) \cup {""} :
            Restore(p, n, target)
    \/ \E p \in FaultPaths : DetectFaulty(p)
    \/ \E p \in FaultPaths : \E n \in RestoreNumbers(p), target \in (Paths \ {p}) \cup {""} :
            RestoreFaulty(p, n, target)

SpecFault == Init /\ [][NextFault]_vars


\* ------------------------------------------------------- track_directory

\* The directory's entries in the order the glob yields them.
Listing == <<"a.txt", "b.txt">>

\* What each glob pattern matches in the directory.
Matches(pattern, p) ==
    CASE pattern = "*" -> TRUE
      [] pattern = "*.txt" -> p \in {"a.txt", "b.txt"}
      [] pattern = "a*" -> p = "a.txt"
      [] OTHER -> FALSE

\* The patterns arguments track_directory is called with; <<>> is None.
PatternLists == {<<>>, <<"*.txt">>, <<"a*">>, <<"*.txt", "a*">>}

BatchFileStates == {NoFile, TextFile("hello"), HugeFile, CorruptFile}

RECURSIVE Concat(_)
Concat(seqs) == IF seqs = <<>> THEN <<>> ELSE Head(seqs) \o Concat(Tail(seqs))

\* AsyncVersionTracker._find_files: for each pattern in turn (["*"] when none
\* is given), every entry it matches that is a file.
_find_files(files, patterns) ==
    LET used == IF patterns = <<>> THEN <<"*">> ELSE patterns
        matched(pattern) ==
            SelectSeq(Listing, LAMBDA p : Matches(pattern, p) /\ files[p].exists)
    IN  Concat([i \in 1..Len(used) |-> matched(used[i])])

\* process_file's except clauses: the error_type recorded for what track raised.
ErrorType(raised) ==
    CASE raised = "ParsingError" -> "parsing"
      [] raised = "StorageError" -> "storage"
      [] OTHER -> "unknown"

FileProcessingError(file_path, raised) ==
    [file_path |-> file_path, error_type |-> ErrorType(raised),
     exception_type |-> raised]

\* models.BatchResult and its success_count / failure_count properties.
BatchResult(successful_events, failed_errors, total_files) ==
    [successful |-> successful_events, failed |-> failed_errors,
     total_files |-> total_files]

success_count(result) == Len(result.successful)

failure_count(result) == Len(result.failed)

\* asyncio.Semaphore.acquire proceeds only while the value is positive.
CanAcquireAlways(value) == TRUE

CanAcquire(value) == value > 0

\* The process_file tasks that hold a permit: inside `async with semaphore`.
InFlight == {i \in DOMAIN workers : workers[i].pc = "running"}

InitBatch ==
    /\ fs \in [Paths -> BatchFileStates]
    /\ documents = [p \in Paths |-> NoDoc]
    /\ versions = {}
    /\ content = <<>>
    /\ store_content = TRUE
    /\ last = Idle
    /\ faults = 0
    /\ batch = NoBatch
    /\ sem = 0
    /\ workers = <<>>
    /\ successful = <<>>
    /\ failed = <<>>
    /\ NoListeners
    /\ NoChunking
    /\ chunk_tracking_enabled \in BOOLEAN
    /\ Opened

\* track_directory up to asyncio.gather: the files are enumerated, the
\* semaphore is made and one process_file task per enumerated file is started.
StartBatch(patterns, max_workers, on_error) ==
    /\ batch.pc = "idle"
    /\ LET files == _find_files(fs, patterns)
       IN  /\ batch' = [pc |-> "gathering", files |-> files,
                        total_files |-> Len(files), max_workers |-> max_workers,
                        on_error |-> on_error, result |-> <<>>]
           /\ workers' = [i \in 1..Len(files) |-> [pc |-> "waiting"]]
    /\ sem' = max_workers
    /\ successful' = <<>>
    /\ failed' = <<>>
    /\ UNCHANGED <<fs, documents, versions, content, store_content, last, faults>>
    /\ UNCHANGED emitvars
    /\ UNCHANGED chunkvars
    /\ UNCHANGED lifevars

\* process_file i enters `async with semaphore`.
WorkerAcquire(i) ==
    /\ workers[i].pc = "waiting"
    /\ CanAcquire(sem)
    /\ sem' = sem - 1
    /\ workers' = [workers EXCEPT ![i].pc = "running"]
    /\ UNCHANGED <<fs, documents, versions, content, store_content, last, faults,
                   batch, successful, failed>>
    /\ UNCHANGED emitvars
    /\ UNCHANGED chunkvars
    /\ UNCHANGED lifevars

\* process_file i finishes track: the event of a change is appended to
\* successful, what track raised is appended to failed (and raised again
\* under on_error = "stop"); leaving `async with` releases the permit.
WorkerFinish(i) ==
    /\ workers[i].pc = "running"
    /\ LET path == batch.files[i]
           t == track(DB, path, fs[path], NoFault)
           r == t.result
       IN  /\ Commit(t.db)
           /\ successful' = IF r.raised = "none" /\ r.changed
                            THEN Append(successful, r.event) ELSE successful
           /\ failed' = IF r.raised # "none"
                        THEN Append(failed, FileProcessingError(path, r.raised))
                        ELSE failed
           /\ workers' = [workers EXCEPT ![i].pc =
                            IF r.raised # "none" /\ batch.on_error = "stop"
                            THEN "raised" ELSE "done"]
    /\ sem' = sem + 1
    /\ UNCHANGED <<fs, store_content, last, faults, batch>>
    /\ UNCHANGED emitvars
    /\ UNCHANGED chunkvars
    /\ UNCHANGED lifevars

\* asyncio.gather returns when every task is done, or raises as soon as one
\* task raised; `except Exception: pass` then lets track_directory build and
\* return the BatchResult from the lists as they are then.  Tasks still
\* running are not cancelled.
GatherReturn ==
    /\ batch.pc = "gathering"
    /\ \/ \A i \in DOMAIN workers : workers[i].pc = "done"
       \/ \E i \in DOMAIN workers : workers[i].pc = "raised"
    /\ batch' = [batch EXCEPT !.pc = "returned",
                              !.result = <<BatchResult(successful, failed,
                                                       batch.total_files)>>]
    /\ UNCHANGED <<fs, documents, versions, content, store_content, last, faults,
                   sem, workers, successful, failed>>
    /\ UNCHANGED emitvars
    /\ UNCHANGED chunkvars
    /\ UNCHANGED lifevars

NextBatch ==
    \/ \E patterns \in PatternLists, max_workers \in 0..MaxWorkers,
          on_error \in {"continue", "stop"} :
            StartBatch(patterns, max_workers, on_error)
    \/ \E i \in DOMAIN workers : WorkerAcquire(i)
    \/ \E i \in DOMAIN workers : WorkerFinish(i)
    \/ GatherReturn

SpecBatch == InitBatch /\ [][NextBatch]_vars

\* ------------------------------------------------------- the event system

\* At most MaxListeners callbacks are registered.
MaxListeners == 2

\* inspect.iscoroutinefunction(callback): a listener is a coroutine function
\* (awaited on the loop) or a plain function (run in the default executor).
ListenerKinds == {"async", "sync"}

\* How an awaited listener ends: it returns, it raises an Exception, or
\* asyncio.wait_for gives up on it after callback_timeout.
ListenerOutcomes == {"returns", "raises", "timeout"}

\* AsyncVersionTracker.on_change
on_change(registered, callback) == Append(registered, callback)

\* One invocation of a listener: which listener, with which event.
Invocation(i, event) == [listener |-> i, event |-> event]

\* The for loop of _emit_event after listener i ended: TimeoutError and
\* Exception are caught and logged inside the loop, which goes on.
NextListenerStopsOnFailure(i, outcome) ==
    IF outcome = "returns" THEN i + 1 ELSE Len(callbacks) + 1

NextListener(i, outcome) == i + 1

\* Whether the listener's code is still running once its wait_for ended: a
\* timed out coroutine is cancelled; a timed out plain function keeps running
\* in its executor thread, which nothing stops.
StillRunning(kind, outcome) == kind = "sync" /\ outcome = "timeout"

\* The state the event system starts from: a.txt recorded as Version 1 by
\* detect_change, b.txt written and not recorded, content storage on.
InitEmit ==
    /\ fs = [p \in Paths |-> TextFile("hello")]
    /\ store_content = TRUE
    /\ LET empty == [documents |-> [p \in Paths |-> NoDoc], versions |-> {},
                     content |-> <<>>]
           d == detect_change(empty, "a.txt", TextFile("hello"), NoFault)
       IN  /\ documents = d.db.documents
           /\ versions = d.db.versions
           /\ content = d.db.content
    /\ last = Idle
    /\ faults = 0
    /\ batch = NoBatch
    /\ sem = 0
    /\ workers = <<>>
    /\ successful = <<>>
    /\ failed = <<>>
    /\ callbacks = <<>>
    /\ notification_manager \in BOOLEAN
    /\ emit = NoEmission
    /\ invoked = <<>>
    /\ executing = {}
    /\ NoChunking
    /\ chunk_tracking_enabled = FALSE
    /\ Opened

\* A caller registers a listener.
OnChange(kind) ==
    /\ emit.pc = "idle"
    /\ Len(callbacks) < MaxListeners
    /\ callbacks' = on_change(callbacks, kind)
    /\ UNCHANGED <<fs, documents, versions, content, store_content, last, faults>>
    /\ UNCHANGED <<notification_manager, emit, invoked, executing>>
    /\ UNCHANGED batchvars
    /\ UNCHANGED chunkvars
    /\ UNCHANGED lifevars

\* The version numbers the callers of this section ask to restore: the first
\* version, which a tracked document has and an untracked one lacks.
RestoredVersions == {1}

\* A caller runs AsyncVersionTracker.restore_version(p, n, None,
\* trigger_callbacks): the detector restores; the event is then emitted before
\* it is returned, unless the caller turned the callbacks off.
RestoreCall(p, n, trigger_callbacks) ==
    /\ emit.pc = "idle"
    /\ WithinBound(p)
    /\ LET r == restore_version(DB, p, n, "", NoFault)
           result == Result("restore_version", p, r.raised, r.event # NoEvent,
                            documents[p].exists, n, r.event,
                            r.event # NoEvent /\ trigger_callbacks)
       IN  /\ Commit(r.db)
           /\ fs' = IF r.written = <<>> THEN fs
                    ELSE [fs EXCEPT ![r.written[1]] = r.written[2]]
           /\ IF r.raised = "none" /\ trigger_callbacks
              THEN /\ emit' = [pc |-> IF notification_manager THEN "notify" ELSE "loop",
                               event |-> r.event, i |-> 1, failures |-> {},
                               result |-> result]
                   /\ last' = last
              ELSE /\ emit' = emit
                   /\ last' = result
    /\ UNCHANGED <<store_content, faults, callbacks, notification_manager,
                   invoked, executing>>
    /\ UNCHANGED batchvars
    /\ UNCHANGED chunkvars
    /\ UNCHANGED lifevars

\* _emit_event: notification_manager.notify(event); what it raises is caught
\* and logged (recorded as the failure of listener 0).
EmitNotify(outcome) ==
    /\ emit.pc = "notify"
    /\ emit' = [emit EXCEPT !.pc = "loop",
                            !.failures = IF outcome = "raises" THEN @ \cup {0} ELSE @]
    /\ UNCHANGED <<fs, documents, versions, content, store_content, last, faults>>
    /\ UNCHANGED <<callbacks, notification_manager, invoked, executing>>
    /\ UNCHANGED batchvars
    /\ UNCHANGED chunkvars
    /\ UNCHANGED lifevars

\* _emit_event: the loop calls the next listener and waits for it under
\* asyncio.wait_for.
EmitInvoke ==
    /\ emit.pc = "loop"
    /\ emit.i <= Len(callbacks)
    /\ invoked' = Append(invoked, Invocation(emit.i, emit.event))
    /\ executing' = executing \cup {Invocation(emit.i, emit.event)}
    /\ emit' = [emit EXCEPT !.pc = "waiting"]
    /\ UNCHANGED <<fs, documents, versions, content, store_content, last, faults>>
    /\ UNCHANGED <<callbacks, notification_manager>>
    /\ UNCHANGED batchvars
    /\ UNCHANGED chunkvars
    /\ UNCHANGED lifevars

\* _emit_event: the wait for the current listener ends.
ListenerEnds(outcome) ==
    /\ emit.pc = "waiting"
    /\ executing' = IF StillRunning(callbacks[emit.i], outcome) THEN executing
                    ELSE executing \ {Invocation(emit.i, emit.event)}
    /\ emit' = [emit EXCEPT !.pc = "loop",
                            !.i = NextListener(emit.i, outcome),
                            !.failures = IF outcome = "returns" THEN @
                                         ELSE @ \cup {emit.i}]
    /\ UNCHANGED <<fs, documents, versions, content, store_content, last, faults>>
    /\ UNCHANGED <<callbacks, notification_manager, invoked>>
    /\ UNCHANGED batchvars
    /\ UNCHANGED chunkvars
    /\ UNCHANGED lifevars

\* A plain function that was given up on finishes in its thread.
AbandonedEnds(x) ==
    /\ x \in executing
    /\ ~(emit.pc = "waiting" /\ x = Invocation(emit.i, emit.event))
    /\ executing' = executing \ {x}
    /\ UNCHANGED <<fs, documents, versions, content, store_content, last, faults>>
    /\ UNCHANGED <<callbacks, notification_manager, emit, invoked>>
    /\ UNCHANGED batchvars
    /\ UNCHANGED chunkvars
    /\ UNCHANGED lifevars

\* _emit_event returns after the last listener; restore_version returns the
\* event.
EmitDone ==
    /\ emit.pc = "loop"
    /\ emit.i > Len(callbacks)
    /\ last' = emit.result
    /\ emit' = NoEmission
    /\ UNCHANGED <<fs, documents, versions, content, store_content, faults>>
    /\ UNCHANGED <<callbacks, notification_manager, invoked, executing>>
    /\ UNCHANGED batchvars
    /\ UNCHANGED chunkvars
    /\ UNCHANGED lifevars

NextEmit ==
    \/ \E kind \in ListenerKinds : OnChange(kind)
    \/ \E p \in Paths : Track(p)
    \/ \E p \in Paths, n \in RestoredVersions, trigger_callbacks \in BOOLEAN :
            RestoreCall(p, n, trigger_callbacks)
    \/ \E outcome \in {"returns", "raises"} : EmitNotify(outcome)
    \/ EmitInvoke
    \/ \E outcome \in ListenerOutcomes : ListenerEnds(outcome)
    \/ \E x \in executing : AbandonedEnds(x)
    \/ EmitDone

SpecEmit == InitEmit /\ [][NextEmit]_vars

\* ------------------------------------------------- chunk change detection

\* The chunker returns at most MaxChunks segments for a content.
MaxChunks == 3

\* The texts of the segments.
ChunkTexts == {"w", "x", "y", "z"}

\* old_version_id: None; a version whose chunks and row the storage returns;
\* a version for which get_chunks_by_version raises; a version whose chunks
\* are returned and for which get_version then raises.
OldVersionIds == {"none", "stored", "fails", "version_fails"}

\* ChunkChangeDetector._hash: the hex digest of the segment's text.
_hash(text) == "sha256:" \o text

\* models.Chunk; chunk_index is 0-indexed.
Chunk(version_id, chunk_index, text) ==
    [version_id |-> version_id, chunk_index |-> chunk_index,
     content_hash |-> _hash(text), text |-> text]

\* The Chunk objects built from the segments in order: enumerate(new_texts).
ChunksOf(version_id, texts) ==
    [i \in 1..Len(texts) |-> Chunk(version_id, i - 1, texts[i])]

\* The keys of {chunk.content_hash: chunk for chunk in chunks}.
HashesOf(chunk_list) == {chunk_list[i].content_hash : i \in DOMAIN chunk_list}

\* {chunk.content_hash: chunk.chunk_index for chunk in old_chunks}[h]: a later
\* chunk of the same hash replaces the entry of an earlier one.
old_position_map(old_chunks, h) ==
    LET held == {i \in DOMAIN old_chunks : old_chunks[i].content_hash = h}
        latest == CHOOSE i \in held : \A j \in held : j <= i
    IN  old_chunks[latest].chunk_index

\* models.ChunkDiff
ChunkDiffSwapped(from_version, to_version, added, removed, unchanged, reordered) ==
    [from_version |-> to_version, to_version |-> from_version,
     added_chunks |-> added,
     modified_chunks |-> <<>>, removed_chunks |-> removed,
     unchanged_chunks |-> unchanged, reordered_chunks |-> reordered]

ChunkDiff(from_version, to_version, added, removed, unchanged, reordered) ==
    [from_version |-> from_version, to_version |-> to_version,
     added_chunks |-> added,
     modified_chunks |-> <<>>, removed_chunks |-> removed,
     unchanged_chunks |-> unchanged, reordered_chunks |-> reordered]

\* ChunkDiff.total_changes
total_changes(diff) == Len(diff.added_chunks) + Len(diff.modified_chunks)

\* ChunkDiff.total_chunks
total_chunks_with_removed(diff) ==
    Len(diff.added_chunks) + Len(diff.modified_chunks)
        + Len(diff.unchanged_chunks) + Len(diff.reordered_chunks)
        + Len(diff.removed_chunks)

total_chunks(diff) ==
    Len(diff.added_chunks) + Len(diff.modified_chunks)
        + Len(diff.unchanged_chunks) + Len(diff.reordered_chunks)

\* The value of a / b, as the fraction in lowest terms (b > 0).
RECURSIVE GCD(_, _)
GCD(a, b) == IF b = 0 THEN a ELSE GCD(b, a % b)

Quotient(a, b) == [num |-> a \div GCD(a, b), den |-> b \div GCD(a, b)]

\* ChunkDiff.savings_percentage: (unchanged_count / total_chunks) * 100, and
\* 0.0 for a diff without chunks.
savings_percentage_of_unchanged(diff) ==
    IF total_chunks(diff) = 0 THEN Quotient(0, 1)
    ELSE Quotient(Len(diff.unchanged_chunks) * 100, total_chunks(diff))

savings_percentage(diff) ==
    IF total_chunks(diff) = 0 THEN Quotient(0, 1)
    ELSE Quotient((Len(diff.unchanged_chunks) + Len(diff.reordered_chunks)) * 100,
                  total_chunks(diff))

\* ChunkChangeDetector.calculate_savings_metrics: the dictionary it returns.
calculate_savings_metrics_over_all(diff) ==
    LET total == total_chunks(diff) + Len(diff.removed_chunks)
        unchanged_count == Len(diff.unchanged_chunks)
                            + Len(diff.reordered_chunks)
        changed_count == total_changes(diff)
    IN  [total_chunks |-> total,
         unchanged_chunks |-> unchanged_count,
         changed_chunks |-> changed_count,
         chunks_to_embed |-> IF total = 0 THEN 0 ELSE changed_count,
         savings_percentage |-> IF total = 0 THEN Quotient(0, 1)
                                ELSE Quotient(unchanged_count * 100, total),
         added |-> Len(diff.added_chunks),
         removed |-> Len(diff.removed_chunks),
         reordered |-> Len(diff.reordered_chunks)]

calculate_savings_metrics(diff) ==
    LET total == total_chunks(diff)
        unchanged_count == Len(diff.unchanged_chunks)
                            + Len(diff.reordered_chunks)
        changed_count == total_changes(diff)
    IN  [total_chunks |-> total,
         unchanged_chunks |-> unchanged_count,
         changed_chunks |-> changed_count,
         chunks_to_embed |-> IF total = 0 THEN 0 ELSE changed_count,
         savings_percentage |-> IF total = 0 THEN Quotient(0, 1)
                                ELSE Quotient(unchanged_count * 100, total),
         added |-> Len(diff.added_chunks),
         removed |-> Len(diff.removed_chunks),
         reordered |-> Len(diff.reordered_chunks)]

\* The old chunks the comparison runs on: old_chunks stays [] without an old
\* version and when get_chunks_by_version raised.
RetrievedOldChunksDespiteFailure(old_version_id, stored_chunks) ==
    IF old_version_id = "none" THEN <<>> ELSE stored_chunks

RetrievedOldChunks(old_version_id, stored_chunks) ==
    IF old_version_id \in {"stored", "version_fails"} THEN stored_chunks ELSE <<>>

\* ChunkChangeDetector.detect_chunk_changes: stored_chunks are the chunks the
\* storage holds for the old version, whose version_number is from_number;
\* new_texts is what the chunker returns for the new content, to_number the
\* version_number of the new version new_version_id.
detect_chunk_changes(old_version_id, from_number, stored_chunks, new_texts, new_version_id, to_number) ==
    LET old_chunks == RetrievedOldChunks(old_version_id, stored_chunks)
        new_chunks == ChunksOf(new_version_id, new_texts)
        old_map == HashesOf(old_chunks)
        new_map == HashesOf(new_chunks)
        added == SelectSeq(new_chunks, LAMBDA c : c.content_hash \notin old_map)
        unchanged ==
            SelectSeq(new_chunks, LAMBDA c :
                /\ c.content_hash \in old_map
                /\ old_position_map(old_chunks, c.content_hash) = c.chunk_index)
        reordered ==
            SelectSeq(new_chunks, LAMBDA c :
                /\ c.content_hash \in old_map
                /\ old_position_map(old_chunks, c.content_hash) # c.chunk_index)
        removed == SelectSeq(old_chunks, LAMBDA c : c.content_hash \notin new_map)
    IN  ChunkDiff(IF old_version_id = "stored" THEN from_number ELSE 0, to_number,
                  added, removed, unchanged, reordered)

\* Every sequence of at most n segment texts.
TextSeqs(n) == UNION {[1..k -> ChunkTexts] : k \in 0..n}

\* A detect_chunk_changes call is about to be made: the old version's chunks
\* are the ones built from some earlier content, the chunker has some
\* segments for the new content.
InitChunk ==
    /\ fs = [p \in Paths |-> NoFile]
    /\ documents = [p \in Paths |-> NoDoc]
    /\ versions = {}
    /\ content = <<>>
    /\ store_content = TRUE
    /\ last = Idle
    /\ faults = 0
    /\ batch = NoBatch
    /\ sem = 0
    /\ workers = <<>>
    /\ successful = <<>>
    /\ failed = <<>>
    /\ NoListeners
    /\ \E old_version_id \in OldVersionIds :
       \E old_texts \in IF old_version_id = "none" THEN {<<>>} ELSE TextSeqs(MaxChunks) :
       \E new_texts \in TextSeqs(MaxChunks) :
            chunk_call = [old_version_id |-> old_version_id,
                          old_chunks |-> ChunksOf("old", old_texts),
                          new_texts |-> new_texts]
    /\ chunk_diff = <<>>
    /\ chunk_tracking_enabled = TRUE
    /\ Opened
    /\ chunks = {}
    /\ uncommitted = {}

\* The call runs and returns its ChunkDiff.
DetectChunkChanges ==
    /\ chunk_diff = <<>>
    /\ chunk_diff' = <<detect_chunk_changes(chunk_call.old_version_id, 1,
                                            chunk_call.old_chunks,
                                            chunk_call.new_texts, "new", 2)>>
    /\ UNCHANGED <<fs, documents, versions, content, store_content, last, faults>>
    /\ UNCHANGED <<chunk_call, chunk_tracking_enabled, chunks, uncommitted>>
    /\ UNCHANGED lifevars
    /\ UNCHANGED batchvars
    /\ UNCHANGED emitvars

NextChunk == DetectChunkChanges

SpecChunk == InitChunk /\ [][NextChunk]_vars

\* ------------------------------------------------ chunks in the storage

\* The paths the chunk operations are run on.
ChunkPaths == {"a.txt"}

\* The storage of this section holds at most MaxChunkedVersions versions.
MaxChunkedVersions == 2

\* The storage calls of get_chunk_diff that may raise.
ChunkFaults == {"get_version_by_number", "get_content", "get_chunks_by_version",
                "get_version"}

\* CharacterChunker.split_text with chunk_size = 5 and chunk_overlap = 0: the
\* text cut at every fifth character, [] for an empty text.
split_text(text) ==
    CASE text = "" -> <<>>
      [] text = "hello" -> <<"hello">>
      [] text = "hello world" -> <<"hello", " worl", "d">>

\* SQLiteStorage.get_chunks_by_version: the rows of the version, ORDER BY
\* chunk_index.
get_chunks_by_version(rows, version_id) ==
    LET mine == {c \in rows : c.version_id = version_id}
    IN  [i \in 1..Cardinality(mine) |->
            CHOOSE c \in mine :
                Cardinality({d \in mine : d.chunk_index < c.chunk_index}) = i - 1]

\* SQLiteStorage.create_chunks_batch: executemany INSERTs the rows one after
\* the other, UNIQUE(version_id, chunk_index); the chunk_content rows follow,
\* then db.commit().  fails_at names the row whose INSERT raises (0: none,
\* Len(batch) + 1: the chunk_content INSERT or the commit raises).  What
\* raises becomes a StorageError; nothing rolls the connection back, so the
\* rows inserted before stay in its open transaction.
create_chunks_batch(rows, pending, chunk_batch, fails_at) ==
    LET Conflicts(k) == \E c \in rows :
                            /\ c.version_id = chunk_batch[k].version_id
                            /\ c.chunk_index = chunk_batch[k].chunk_index
        failing == {k \in 1..Len(chunk_batch) : k = fails_at \/ Conflicts(k)}
                    \cup (IF fails_at = Len(chunk_batch) + 1 THEN {fails_at} ELSE {})
        first == CHOOSE k \in failing : \A j \in failing : k <= j
        inserted == {chunk_batch[k] : k \in 1..(first - 1)}
        all == {chunk_batch[k] : k \in 1..Len(chunk_batch)}
    IN  IF chunk_batch = <<>>
        THEN [chunks |-> rows, uncommitted |-> pending, raised |-> "none"]
        ELSE IF failing # {}
        THEN [chunks |-> rows \cup inserted, uncommitted |-> pending \cup inserted,
              raised |-> "StorageError"]
        ELSE [chunks |-> rows \cup all, uncommitted |-> {}, raised |-> "none"]

\* AsyncVersionTracker.get_chunk_diff: what it returns (<<>> is None); every
\* exception is caught and logged.
get_chunk_diff(db, rows, enabled, document_id, from_version, to_version, fault) ==
    LET from_ver == get_version_by_number(db, document_id, from_version)
        to_ver == get_version_by_number(db, document_id, to_version)
        from_row == CHOOSE v \in from_ver : TRUE
        to_row == CHOOSE v \in to_ver : TRUE
        to_content == get_content(db, VersionId(to_row))
    IN  IF ~enabled THEN <<>>
        ELSE IF fault = "get_version_by_number" THEN <<>>
        ELSE IF from_ver = {} \/ to_ver = {} THEN <<>>
        ELSE IF fault = "get_content" THEN <<>>
        ELSE IF ~Truthy(to_content) THEN <<>>
        ELSE IF fault = "get_version" THEN <<>>
        ELSE <<detect_chunk_changes(
                    IF fault = "get_chunks_by_version" THEN "fails" ELSE "stored",
                    from_row.version_number,
                    get_chunks_by_version(rows, VersionId(from_row)),
                    split_text(to_content[1]),
                    VersionId(to_row), to_row.version_number)>>

\* AsyncVersionTracker.track_with_chunks, past the diff: the chunks handed to
\* create_chunks_batch are the added, unchanged and reordered ones, and they
\* are handed over only `if chunks_to_store and store_chunk_content`.
chunks_to_store(diff, store_chunk_content) ==
    IF store_chunk_content
    THEN diff.added_chunks \o diff.unchanged_chunks \o diff.reordered_chunks
    ELSE <<>>

\* AsyncVersionTracker.track_with_chunks: track runs first, outside the try,
\* so what it raises is raised.  What track returns is a TrackResult: it is
\* never None, and it has no version_id, so with chunk tracking on the
\* AttributeError of event.version_id is caught and (event, None) returned.
track_with_chunks(db, rows, enabled, file_path, file) ==
    LET t == track(db, file_path, file, NoFault)
    IN  [db |-> t.db, chunks |-> rows, chunk_diff |-> <<>>,
         result |-> [t.result EXCEPT !.op = "track_with_chunks"]]

\* A tracker over an empty storage, with or without chunk tracking.
InitStore ==
    /\ fs = [p \in Paths |-> NoFile]
    /\ documents = [p \in Paths |-> NoDoc]
    /\ versions = {}
    /\ content = <<>>
    /\ store_content = TRUE
    /\ last = Idle
    /\ faults = 0
    /\ batch = NoBatch
    /\ sem = 0
    /\ workers = <<>>
    /\ successful = <<>>
    /\ failed = <<>>
    /\ NoListeners
    /\ NoChunking
    /\ chunk_tracking_enabled \in BOOLEAN
    /\ Opened

\* No get_chunk_diff result is waiting for its caller.
NoDiffCall == chunk_call = NoChunkCall

\* A caller runs AsyncVersionTracker.track_with_chunks(p).
TrackWithChunks(p) ==
    /\ NoDiffCall
    /\ LET t == track_with_chunks(DB, chunks, chunk_tracking_enabled, p, fs[p])
       IN  /\ Commit(t.db)
           /\ last' = t.result
           /\ chunks' = t.chunks
           /\ chunk_diff' = t.chunk_diff
    /\ UNCHANGED <<fs, store_content, faults>>
    /\ UNCHANGED <<chunk_call, chunk_tracking_enabled, uncommitted>>
    /\ UNCHANGED lifevars
    /\ UNCHANGED batchvars
    /\ UNCHANGED emitvars

\* A caller builds the chunks of version n of p (create_chunks_for_version)
\* and hands them to SQLiteStorage.create_chunks_batch.
CreateChunksBatch(p, n, fails_at) ==
    /\ NoDiffCall
    /\ get_version_by_number(DB, p, n) # {}
    /\ Truthy(get_content(DB, <<p, n>>))
    /\ LET chunk_batch == ChunksOf(<<p, n>>, split_text(content[<<p, n>>]))
           r == create_chunks_batch(chunks, uncommitted, chunk_batch, fails_at)
       IN  /\ fails_at <= Len(chunk_batch) + 1
           /\ chunks' = r.chunks
           /\ uncommitted' = r.uncommitted
           /\ last' = Result("create_chunks_batch", p, r.raised, FALSE,
                             documents[p].exists, n, NoEvent, FALSE)
    /\ UNCHANGED <<fs, documents, versions, content, store_content, faults>>
    /\ UNCHANGED <<chunk_call, chunk_diff, chunk_tracking_enabled>>
    /\ UNCHANGED lifevars
    /\ UNCHANGED batchvars
    /\ UNCHANGED emitvars

\* A caller runs AsyncVersionTracker.get_chunk_diff(p, from_version,
\* to_version), one storage call of which may raise.
GetChunkDiff(p, from_version, to_version, fault) ==
    /\ NoDiffCall
    /\ chunk_call' = [op |-> "get_chunk_diff", document_id |-> p,
                      from_version |-> from_version, to_version |-> to_version,
                      storage_failed |-> fault # NoFault]
    /\ chunk_diff' = get_chunk_diff(DB, chunks, chunk_tracking_enabled, p,
                                    from_version, to_version, fault)
    /\ UNCHANGED <<fs, documents, versions, content, store_content, last, faults>>
    /\ UNCHANGED <<chunk_tracking_enabled, chunks, uncommitted>>
    /\ UNCHANGED lifevars
    /\ UNCHANGED batchvars
    /\ UNCHANGED emitvars

\* The caller has taken what get_chunk_diff returned.
ChunkDiffTaken ==
    /\ ~NoDiffCall
    /\ chunk_call' = NoChunkCall
    /\ chunk_diff' = <<>>
    /\ UNCHANGED <<fs, documents, versions, content, store_content, last, faults>>
    /\ UNCHANGED <<chunk_tracking_enabled, chunks, uncommitted>>
    /\ UNCHANGED lifevars
    /\ UNCHANGED batchvars
    /\ UNCHANGED emitvars

NextStore ==
    \/ \E p \in ChunkPaths, c \in Contents : NoDiffCall /\ WriteFile(p, TextFile(c))
    \/ \E p \in ChunkPaths :
            NoDiffCall /\ Cardinality(versions) < MaxChunkedVersions /\ Detect(p)
    \/ \E p \in ChunkPaths : TrackWithChunks(p)
    \/ \E p \in ChunkPaths : \E n \in RestoreNumbers(p), fails_at \in 0..(MaxChunks + 1) :
            CreateChunksBatch(p, n, fails_at)
    \/ \E p \in ChunkPaths : \E from_version, to_version \in RestoreNumbers(p) :
        \E fault \in ChunkFaults \cup {NoFault} :
            GetChunkDiff(p, from_version, to_version, fault)
    \/ ChunkDiffTaken

SpecStore == InitStore /\ [][NextStore]_vars

\* ------------------------------------------- retention and the lifecycle

\* The storage of this section holds at most MaxRetained versions.
MaxRetained == 3

\* SQLiteStorage (embedded) and SupabaseStorage (managed).
Backends == {"sqlite", "supabase"}

\* SQLiteStorage._ensure_connected: PRAGMA foreign_keys = ON, so the ON DELETE
\* CASCADE clauses of the versions, content_snapshots and chunks tables act.
foreign_keys == TRUE

\* The schema of the managed backend is SQL run on the server: deleting a
\* Version deletes its content blob and its chunks.
SupabaseCascade == TRUE

Cascades(b) == IF b = "sqlite" THEN foreign_keys ELSE SupabaseCascade

\* The tables a storage call works on and leaves, what it raised and returned.
Stored(db, rows, line, raised, returned) ==
    [db |-> db, chunks |-> rows, timeline |-> line, raised |-> raised,
     returned |-> returned]

\* The content_snapshots table without the rows of the versions ids.
Without(snapshots, ids) ==
    IF DOMAIN snapshots \subseteq ids THEN <<>>
    ELSE [id \in DOMAIN snapshots \ ids |-> snapshots[id]]

\* list_versions: the Versions of the document, ORDER BY version_number DESC
\* LIMIT limit.
list_versions(db, document_id, limit) ==
    LET mine == {v \in db.versions : v.document_id = document_id}
        ordered == [i \in 1..Cardinality(mine) |->
                        CHOOSE v \in mine :
                            Cardinality({w \in mine :
                                w.version_number > v.version_number}) = i - 1]
    IN  IF Len(ordered) <= limit THEN ordered ELSE SubSeq(ordered, 1, limit)

\* The limit cleanup_old_versions lists the versions with.
CleanupLimit(b) == IF b = "sqlite" THEN 10000 ELSE 1000

\* delete_version.  sqlite: DELETE FROM versions WHERE id = ?, the content and
\* the chunks go by cascade.  supabase: delete_content, then the versions row.
delete_version_row_only(b, t, version_id) ==
    Stored([t.db EXCEPT !.versions = {v \in @ : VersionId(v) # version_id}],
           t.chunks,
           SelectSeq(t.timeline, LAMBDA id : id # version_id), "none", 0)

delete_version(b, t, version_id) ==
    LET cascade == Cascades(b)
        snapshots == IF cascade \/ b = "supabase"
                     THEN Without(t.db.content, {version_id}) ELSE t.db.content
    IN  Stored([t.db EXCEPT !.versions = {v \in @ : VersionId(v) # version_id},
                            !.content = snapshots],
               IF cascade THEN {c \in t.chunks : c.version_id # version_id}
               ELSE t.chunks,
               SelectSeq(t.timeline, LAMBDA id : id # version_id), "none", 0)

\* for version in versions_to_delete: await self.delete_version(version.id)
RECURSIVE delete_each(_, _, _)
delete_each(b, t, ids) ==
    IF ids = <<>> THEN t
    ELSE delete_each(b, delete_version(b, t, Head(ids)), Tail(ids))

\* delete_document.  sqlite: DELETE FROM documents WHERE id = ?, the rest by
\* cascade.  supabase: the versions of the document are deleted, then the
\* content_snapshots rows `eq("document_id", ...)`, then the documents row;
\* content_snapshots rows are written without a document_id, and where the
\* table has no such column that delete raises (snapshots_fail).
delete_document(b, t, document_id, snapshots_fail) ==
    LET mine == {VersionId(v) : v \in {w \in t.db.versions : w.document_id = document_id}}
        cascade == Cascades(b)
        line == SelectSeq(t.timeline, LAMBDA id : id \notin mine)
        cascaded == [t.db EXCEPT
                        !.versions = {v \in @ : v.document_id # document_id},
                        !.content = IF cascade THEN Without(@, mine) ELSE @]
        rows == IF cascade THEN {c \in t.chunks : c.version_id \notin mine}
                ELSE t.chunks
    IN  IF b = "sqlite"
        THEN IF cascade
             THEN Stored([cascaded EXCEPT !.documents[document_id] = NoDoc],
                         rows, line, "none", 0)
             ELSE Stored([t.db EXCEPT !.documents[document_id] = NoDoc],
                         t.chunks, t.timeline, "none", 0)
        ELSE IF snapshots_fail
             THEN Stored(cascaded, rows, line, "StorageError", 0)
             ELSE Stored([cascaded EXCEPT !.documents[document_id] = NoDoc,
                                          !.content = Without(@, mine)],
                         rows, line, "none", 0)

\* versions[keep_count:] of a Python list.
SliceFrom(list, keep_count) ==
    IF keep_count >= 0
    THEN SubSeq(list, keep_count + 1, Len(list))
    ELSE IF -keep_count >= Len(list) THEN list
         ELSE SubSeq(list, Len(list) + keep_count + 1, Len(list))

\* The versions cleanup_old_versions deletes: none when the document has at
\* most keep_count of them, else the listed ones past the first keep_count.
versions_to_delete_above(listed, keep_count) ==
    IF Len(listed) <= keep_count THEN <<>>
    ELSE SubSeq(listed, keep_count + 2, Len(listed))

versions_to_delete(listed, keep_count) ==
    IF Len(listed) <= keep_count THEN <<>> ELSE SliceFrom(listed, keep_count)

\* cleanup_old_versions: returns the number of versions it deleted.
cleanup_old_versions(b, t, document_id, keep_count) ==
    LET listed == list_versions(t.db, document_id, CleanupLimit(b))
        doomed == versions_to_delete(listed, keep_count)
        ids == [i \in DOMAIN doomed |-> VersionId(doomed[i])]
    IN  [delete_each(b, t, ids) EXCEPT !.returned = Len(doomed)]

\* cleanup_by_age: the versions with created_at < utcnow() - days are the
\* `older` oldest of the stored ones; each is deleted, their number returned.
cleanup_by_age(b, t, older) ==
    [delete_each(b, t, SubSeq(t.timeline, 1, older)) EXCEPT !.returned = older]

\* AsyncVersionTracker._ensure_initialized
_ensure_initialized_always(flag) == "none"

_ensure_initialized(flag) == IF flag THEN "none" ELSE "RuntimeError"

\* What a call of this section leaves in `last`: the operation, the document
\* it was called on and what it raised.
Called(op, path, raised) == Result(op, path, raised, FALSE, FALSE, 0, NoEvent, FALSE)

\* The tracker's operations that start with self._ensure_initialized().
TrackerOperations ==
    {"track", "restore_version", "delete_document", "cleanup_old_versions",
     "cleanup_by_age", "get_version_by_number"}

\* A tracker over an empty storage of either backend, as
\* AsyncVersionTracker.create returns it: initialized.
InitRetain ==
    /\ fs = [p \in Paths |-> NoFile]
    /\ documents = [p \in Paths |-> NoDoc]
    /\ versions = {}
    /\ content = <<>>
    /\ store_content = TRUE
    /\ last = Idle
    /\ faults = 0
    /\ batch = NoBatch
    /\ sem = 0
    /\ workers = <<>>
    /\ successful = <<>>
    /\ failed = <<>>
    /\ NoListeners
    /\ NoChunking
    /\ chunk_tracking_enabled = TRUE
    /\ backend \in Backends
    /\ initialized = TRUE
    /\ timeline = <<>>

\* A tracker as its constructor leaves it: _initialized = False.
InitLife ==
    /\ fs = [p \in Paths |-> NoFile]
    /\ documents = [p \in Paths |-> NoDoc]
    /\ versions = {}
    /\ content = <<>>
    /\ store_content = TRUE
    /\ last = Idle
    /\ faults = 0
    /\ batch = NoBatch
    /\ sem = 0
    /\ workers = <<>>
    /\ successful = <<>>
    /\ failed = <<>>
    /\ NoListeners
    /\ NoChunking
    /\ chunk_tracking_enabled = TRUE
    /\ backend \in Backends
    /\ initialized = FALSE
    /\ timeline = <<>>

\* What the calls of this section leave alone.
RetainFrame ==
    /\ UNCHANGED <<store_content, faults, backend>>
    /\ UNCHANGED <<chunk_call, chunk_diff, chunk_tracking_enabled, uncommitted>>
    /\ UNCHANGED batchvars
    /\ UNCHANGED emitvars

\* The tables as a storage call of this section leaves them.
Keep(t) ==
    /\ Commit(t.db)
    /\ chunks' = t.chunks
    /\ timeline' = t.timeline

Tables == Stored(DB, chunks, timeline, "none", 0)

\* initialize() and `async with tracker`; close() and leaving the context.
Initialize ==
    /\ initialized' = TRUE
    /\ last' = Called("initialize", "", "none")
    /\ Keep(Tables)
    /\ UNCHANGED fs
    /\ RetainFrame

Close ==
    /\ initialized' = FALSE
    /\ last' = Called("close", "", "none")
    /\ Keep(Tables)
    /\ UNCHANGED fs
    /\ RetainFrame

\* The operations that may store a new Version stay within MaxRetained.
Retainable(p) ==
    /\ Cardinality(versions) < MaxRetained
    /\ documents[p].current_version < MaxRetained

\* A caller runs the detector's detect_change(p) while the storage is open;
\* the Versions it creates are the newest.
RecordChange(p) ==
    /\ initialized
    /\ Retainable(p)
    /\ LET d == detect_change(DB, p, fs[p], NoFault)
           made == {VersionId(v) : v \in d.db.versions \ versions}
       IN  /\ Commit(d.db)
           /\ timeline' = IF made = {} THEN timeline
                          ELSE Append(timeline, CHOOSE id \in made : TRUE)
           /\ last' = Called("detect_change", p, d.raised)
    /\ UNCHANGED <<fs, chunks, initialized>>
    /\ RetainFrame

\* A caller stores the chunks of version n of p while the storage is open.
StoreChunks(p, n) ==
    /\ initialized
    /\ get_version_by_number(DB, p, n) # {}
    /\ Truthy(get_content(DB, <<p, n>>))
    /\ LET r == create_chunks_batch(chunks, {},
                    ChunksOf(<<p, n>>, split_text(content[<<p, n>>])), 0)
       IN  /\ chunks' = r.chunks
           /\ last' = Called("create_chunks_batch", p, r.raised)
    /\ UNCHANGED <<fs, documents, versions, content, initialized, timeline>>
    /\ RetainFrame

\* A caller runs the storage's delete_version on version n of p.
DeleteVersion(p, n) ==
    /\ initialized
    /\ get_version_by_number(DB, p, n) # {}
    /\ Keep(delete_version(backend, Tables, <<p, n>>))
    /\ last' = Called("delete_version", p, "none")
    /\ UNCHANGED <<fs, initialized>>
    /\ RetainFrame

\* tracker.track(p)
TrackerTrack(p) ==
    /\ LET t == track(DB, p, fs[p], NoFault)
           raised == IF initialized THEN t.result.raised
                     ELSE _ensure_initialized(initialized)
       IN  /\ Commit(IF initialized THEN t.db ELSE DB)
           /\ last' = Called("track", p, raised)
    /\ UNCHANGED <<fs, chunks, initialized, timeline>>
    /\ RetainFrame

\* tracker.restore_version(p, n), to the document's own path.
TrackerRestore(p, n) ==
    /\ Retainable(p)
    /\ LET r == restore_version(DB, p, n, "", NoFault)
           made == {VersionId(v) : v \in r.db.versions \ versions}
       IN  IF initialized
           THEN /\ Commit(r.db)
                /\ fs' = IF r.written = <<>> THEN fs
                         ELSE [fs EXCEPT ![r.written[1]] = r.written[2]]
                /\ timeline' = IF made = {} THEN timeline
                               ELSE Append(timeline, CHOOSE id \in made : TRUE)
                /\ last' = Called("restore_version", p, r.raised)
           ELSE /\ Commit(DB)
                /\ UNCHANGED <<fs, timeline>>
                /\ last' = Called("restore_version", p, _ensure_initialized(initialized))
    /\ UNCHANGED <<chunks, initialized>>
    /\ RetainFrame

\* tracker.get_version_by_number(p, n): returns the number found, 0 for None.
TrackerGetVersion(p, n) ==
    /\ last' = IF initialized
               THEN Called("get_version_by_number", p, "none")
               ELSE Called("get_version_by_number", p, _ensure_initialized(initialized))
    /\ Keep(Tables)
    /\ UNCHANGED <<fs, initialized>>
    /\ RetainFrame

\* tracker.delete_document(p)
TrackerDeleteDocument(p, snapshots_fail) ==
    /\ LET r == delete_document(backend, Tables, p, snapshots_fail)
       IN  IF initialized
           THEN Keep(r) /\ last' = Called("delete_document", p, r.raised)
           ELSE /\ Keep(Tables)
                /\ last' = Called("delete_document", p, _ensure_initialized(initialized))
    /\ UNCHANGED <<fs, initialized>>
    /\ RetainFrame

\* tracker.cleanup_old_versions(p, keep_count)
TrackerCleanupOldVersions(p, keep_count) ==
    /\ LET r == cleanup_old_versions(backend, Tables, p, keep_count)
       IN  IF initialized
           THEN /\ Keep(r)
                /\ last' = Called("cleanup_old_versions", p, r.raised)
           ELSE /\ Keep(Tables)
                /\ last' = Called("cleanup_old_versions", p, _ensure_initialized(initialized))
    /\ UNCHANGED <<fs, initialized>>
    /\ RetainFrame

\* tracker.cleanup_by_age(days), `older` stored versions being older than that.
TrackerCleanupByAge(older) ==
    /\ LET r == cleanup_by_age(backend, Tables, older)
       IN  IF initialized
           THEN /\ Keep(r)
                /\ last' = Called("cleanup_by_age", "", r.raised)
           ELSE /\ Keep(Tables)
                /\ last' = Called("cleanup_by_age", "", _ensure_initialized(initialized))
    /\ UNCHANGED <<fs, initialized>>
    /\ RetainFrame

\* The contents written in this section.
RetainContents == {"hello world"}

\* The document the versions are restored, deleted and cleaned up on; the
\* other document is recorded and deleted as a whole.
RetainPaths == {"a.txt"}

NextRetain ==
    \/ \E p \in Paths, c \in RetainContents : WriteFile(p, TextFile(c))
    \/ \E p \in Paths : RecordChange(p)
    \/ \E p \in Paths : \E n \in 1..MaxRetained : StoreChunks(p, n)
    \/ \E p \in RetainPaths : \E n \in 1..MaxRetained : DeleteVersion(p, n)
    \/ \E p \in RetainPaths : \E n \in RestoreNumbers(p) : TrackerRestore(p, n)
    \/ \E p \in Paths : \E snapshots_fail \in BOOLEAN :
            (snapshots_fail => backend = "supabase")
                /\ TrackerDeleteDocument(p, snapshots_fail)
    \/ \E p \in RetainPaths : \E keep_count \in (-1)..MaxRetained :
            TrackerCleanupOldVersions(p, keep_count)
    \/ \E older \in 0..Len(timeline) : TrackerCleanupByAge(older)

SpecRetain == InitRetain /\ [][NextRetain]_vars

\* The path the tracker is opened, used and closed on.
LifePaths == {"a.txt"}

NextLife ==
    \/ Initialize
    \/ Close
    \/ \E p \in LifePaths, c \in RetainContents : WriteFile(p, TextFile(c))
    \/ \E p \in LifePaths : RecordChange(p)
    \/ \E p \in LifePaths : TrackerTrack(p)
    \/ \E p \in LifePaths : \E n \in RestoreNumbers(p) : TrackerRestore(p, n)
    \/ \E p \in LifePaths : \E n \in RestoreNumbers(p) : TrackerGetVersion(p, n)
    \/ \E p \in LifePaths : TrackerDeleteDocument(p, FALSE)
    \/ \E p \in LifePaths : \E keep_count \in 0..MaxRetained :
            TrackerCleanupOldVersions(p, keep_count)
    \/ \E older \in 0..Len(timeline) : TrackerCleanupByAge(older)

SpecLife == InitLife /\ [][NextLife]_vars

\* ============================================================== the claims

VersionsOf(p) == {v \in versions : v.document_id = p}

VersionNumbersOf(p) == {v.version_number : v \in VersionsOf(p)}

\* The file at p can be read and hashed: it exists, is within the size
\* ceiling and parses.
Hashable(f) == f.exists /\ f.size <= max_file_size_bytes /\ f.readable

\* The step is a call of the tracker's track on p / of detect_change on p.
IsTrackOf(p) == last'.op = "track" /\ last'.path = p

IsDetectOf(p) == last'.op = "detect_change" /\ last'.path = p

\* C1: for every Document, after any sequence of creations, modifications,
\* deletion detections and restores, the version numbers of its stored
\* Versions are exactly 1..version_count, each held by one Version.
C1_DenseVersionNumbers ==
    \A p \in Paths :
        documents[p].exists =>
            /\ VersionNumbersOf(p) = 1..documents[p].version_count
            /\ Cardinality(VersionsOf(p)) = documents[p].version_count

\* A Document that went through a creation, a deletion detection and a restore.
C1_Witness ==
    \E p \in Paths :
        /\ documents[p].version_count = 3
        /\ {v.change_type : v \in VersionsOf(p)} = {"created", "deleted", "restored"}

\* C2: tracking a file twice with no content change in between creates
\* exactly one Version: after a track of a readable file, a second track of
\* the same file, run on the state the first one left, reports
\* changed = false, creates no Version, leaves the Document as it is and
\* reports the version number the first track reported; the Document has a
\* Version, and at most one more than before the first track.
C2_RetrackUnchanged ==
    [][\A p \in Paths :
        (IsTrackOf(p) /\ Hashable(fs[p]))
        => LET second == track(DB', p, fs'[p], NoFault)
           IN  /\ last'.raised = "none"
               /\ second.result.raised = "none"
               /\ ~second.result.changed
               /\ second.result.event = NoEvent
               /\ second.db = DB'
               /\ second.result.version_number = last'.version_number
               /\ VersionsOf(p)' # {}
               /\ Cardinality(VersionsOf(p)') <= Cardinality(VersionsOf(p)) + 1]_vars

\* C3: track on the file of an existing Document whose new content hash
\* differs from the stored one raises current_version by exactly 1, creates
\* exactly one Version, of that number and of kind modified, and stores the
\* new hash in the Document.
C3_ModificationBumpsVersion ==
    [][\A p \in Paths :
        (/\ IsTrackOf(p)
         /\ documents[p].exists
         /\ Hashable(fs[p])
         /\ _compute_hash(fs[p].content) # documents[p].content_hash)
        => /\ documents'[p].current_version = documents[p].current_version + 1
           /\ \E v \in versions' :
                /\ versions' = versions \cup {v}
                /\ v \notin versions
                /\ v.document_id = p
                /\ v.version_number = documents'[p].current_version
                /\ v.change_type = "modified"
           /\ documents'[p].content_hash = _compute_hash(fs[p].content)]_vars

\* C4: the ChangeEvent of a modification carries as previous_hash the hash the
\* Document had before the modification, and as content_hash the new hash.
C4_ModificationPreviousHash ==
    [][\A p \in Paths :
        (/\ IsTrackOf(p) \/ IsDetectOf(p)
         /\ last'.event.change_type = "modified")
        => /\ last'.event.previous_hash = documents[p].content_hash
           /\ last'.event.content_hash = _compute_hash(fs[p].content)]_vars

\* C5: tracking a readable file whose path has no Document creates the
\* Document with version_count = 1 and current_version = 1 and one Version
\* numbered 1 of kind created, and returns a ChangeEvent with version_number 1
\* and no previous_hash.
C5_CreationCreatesVersionOne ==
    [][\A p \in Paths :
        (/\ IsTrackOf(p)
         /\ ~documents[p].exists
         /\ Hashable(fs[p]))
        => /\ documents'[p] =
                Document(_compute_hash(fs[p].content), fs[p].size, 1, 1)
           /\ \A q \in Paths \ {p} : documents'[q] = documents[q]
           /\ versions' = versions \cup
                {Version(p, 1, _compute_hash(fs[p].content), fs[p].size, "created", 0)}
           /\ Cardinality(VersionsOf(p)') = 1
           /\ last'.raised = "none"
           /\ last'.changed
           /\ last'.event.change_type = "created"
           /\ last'.event.version_number = 1
           /\ last'.event.previous_hash = NoHash
           /\ last'.event.content_hash = _compute_hash(fs[p].content)]_vars

\* C6: detect_change on a missing path that has a Document creates one Version
\* of kind deleted, numbered current_version + 1, of size 0; bumps the
\* Document's current_version and version_count by 1 and leaves its
\* content_hash; the event's previous_hash is the last known content hash.
C6_DeletionRecordsVersion ==
    [][\A p \in Paths :
        (/\ IsDetectOf(p)
         /\ ~fs[p].exists
         /\ documents[p].exists)
        => /\ versions' = versions \cup
                {Version(p, documents[p].current_version + 1,
                         documents[p].content_hash, 0, "deleted", 0)}
           /\ Cardinality(versions') = Cardinality(versions) + 1
           /\ documents'[p] =
                [documents[p] EXCEPT !.current_version = @ + 1,
                                     !.version_count = @ + 1]
           /\ content' = content
           /\ last'.raised = "none"
           /\ last'.event.change_type = "deleted"
           /\ last'.event.version_number = documents[p].current_version + 1
           /\ last'.event.file_size = 0
           /\ last'.event.previous_hash = documents[p].content_hash]_vars

\* A detect_change that recorded a deletion.
C6_Witness ==
    /\ last.op = "detect_change"
    /\ last.event.change_type = "deleted"
    /\ ~fs[last.path].exists
    /\ documents[last.path].current_version = 2

\* C7: track on the path of a tracked file that no longer exists records a
\* Version of kind deleted and delivers its ChangeEvent, rather than failing.
C7_TrackRecordsRemoval ==
    [][\A p \in Paths :
        (/\ IsTrackOf(p)
         /\ ~fs[p].exists
         /\ documents[p].exists)
        => /\ last'.raised = "none"
           /\ last'.changed
           /\ last'.emitted
           /\ last'.event.change_type = "deleted"
           /\ \E v \in versions' \ versions :
                v.document_id = p /\ v.change_type = "deleted"]_vars

\* C8: detect_change on a missing path with no Document returns none and
\* writes nothing: no Document, Version or content blob is created or changed.
C8_MissingUntrackedIsNoOp ==
    [][\A p \in Paths :
        (/\ IsDetectOf(p)
         /\ ~fs[p].exists
         /\ ~documents[p].exists)
        => /\ last'.raised = "none"
           /\ last'.event = NoEvent
           /\ ~last'.changed
           /\ documents' = documents
           /\ versions' = versions
           /\ content' = content]_vars

\* A detect_change that returned none for a missing, untracked path while
\* another Document is stored.
C8_Witness ==
    /\ last.op = "detect_change" /\ last.raised = "none" /\ ~last.changed
    /\ ~fs[last.path].exists
    /\ ~documents[last.path].exists
    /\ versions # {}

\* C9: in every reachable state, also after a track or restore that failed
\* part-way with a storage error, each Document's current_version is the
\* version_number of its most recently created stored Version.
C9_CurrentVersionIsStored ==
    \A p \in Paths :
        documents[p].exists =>
            /\ documents[p].current_version \in VersionNumbersOf(p)
            /\ \A n \in VersionNumbersOf(p) : n <= documents[p].current_version

\* C10: during track_directory at most max_workers files are inside track at
\* any moment; every file being processed holds one of the max_workers
\* permits, taken before it started and given back when it finished or failed.
C10_BoundedWorkers ==
    batch.pc # "idle" =>
        /\ Cardinality(InFlight) <= batch.max_workers
        /\ sem + Cardinality(InFlight) = batch.max_workers
        /\ sem >= 0

\* Two files in flight under max_workers = 2, no permit left, a third task waiting.
C10_Witness ==
    /\ batch.max_workers = 2
    /\ Cardinality(InFlight) = 2
    /\ sem = 0
    /\ \E i \in DOMAIN workers : workers[i].pc = "waiting"

\* The enumerated entries that name path p, and the failures recorded for it.
EntriesOf(p) == {i \in DOMAIN batch.files : batch.files[i] = p}

FailuresOf(p) == {i \in DOMAIN failed : failed[i].file_path = p}

\* C11: within one track_directory run each matching path is enumerated and
\* processed exactly once, whatever the patterns: no path has two entries in
\* the enumeration and no two tasks in flight work on the same path.
C11_EachPathOnce ==
    batch.pc # "idle" =>
        /\ \A p \in Paths : Cardinality(EntriesOf(p)) <= 1
        /\ \A i, j \in InFlight : batch.files[i] = batch.files[j] => i = j

\* C12: under on_error = continue track_directory does not raise for a
\* per-file failure: no task re-raises, and the BatchResult it returns holds
\* exactly one FileProcessingError for every file whose tracking failed, every
\* enumerated file having been processed.
C12_ContinueRecordsEachFailure ==
    batch.on_error = "continue" =>
        /\ \A i \in DOMAIN workers : workers[i].pc # "raised"
        /\ batch.pc = "returned" =>
            /\ \A i \in DOMAIN workers : workers[i].pc = "done"
            /\ \A p \in Paths :
                  (EntriesOf(p) # {} /\ track(DB, p, fs[p], NoFault).result.raised # "none")
                  => Cardinality(FailuresOf(p)) = 1
            /\ batch.result[1].failed = failed

\* C13: under on_error = stop the first per-file failure is raised to the
\* caller of track_directory: no BatchResult is returned once a task has
\* failed.
C13_StopPropagates ==
    (batch.on_error = "stop" /\ batch.pc = "returned") =>
        /\ failed = <<>>
        /\ \A i \in DOMAIN workers : workers[i].pc # "raised"

\* C14: a run with max_workers >= 1 over n new files, k of them over the size
\* ceiling and the others readable, returns total_files = n,
\* success_count = n - k and failure_count = k, each failure of error_type
\* "parsing" (or a size-limit category).
C14_OversizeCounts ==
    (/\ batch.pc = "returned"
     /\ batch.on_error = "continue"
     /\ batch.max_workers >= 1
     /\ \A p \in Paths : Cardinality(EntriesOf(p)) <= 1
     /\ \A i \in DOMAIN batch.files :
            fs[batch.files[i]] = HugeFile \/ Hashable(fs[batch.files[i]]))
    => LET result == batch.result[1]
           n == Len(batch.files)
           k == Cardinality({i \in DOMAIN batch.files : fs[batch.files[i]] = HugeFile})
       IN  /\ result.total_files = n
           /\ success_count(result) = n - k
           /\ failure_count(result) = k
           /\ \A i \in DOMAIN result.failed :
                result.failed[i].error_type \in {"parsing", "size_limit"}

\* C15: tracking a file over the size ceiling fails with a declared error (the
\* tracker's ValueError, the detector's ParsingError) and changes no stored
\* state: no Document, Version or content blob is created or updated.
C15_OversizeIsDeclaredError ==
    [][\A p \in Paths :
        (/\ IsTrackOf(p) \/ IsDetectOf(p)
         /\ fs[p].exists
         /\ fs[p].size > max_file_size_bytes)
        => /\ last'.raised \in {"ValueError", "ParsingError"}
           /\ documents' = documents
           /\ versions' = versions
           /\ content' = content]_vars

\* The invocations of listener k with the event that the log holds.
InvocationsIn(log, k, event) ==
    {j \in DOMAIN log : log[j] = Invocation(k, event)}

InvocationsOf(k, event) == InvocationsIn(invoked, k, event)

HoldsChange(p) ==
    /\ Hashable(fs[p])
    /\ \/ ~documents[p].exists
       \/ documents[p].content_hash # _compute_hash(fs[p].content)

\* C17: for each change track detects, every registered listener is invoked
\* exactly once with the change's event, before track returns; an event is not
\* delivered again later; a track that detects no change invokes no listener.
C17_EachListenerOncePerChange ==
    [][/\ \A p \in Paths :
            (IsTrackOf(p) /\ last' # last /\ HoldsChange(p) /\ callbacks # <<>>)
            => /\ last'.raised = "none"
               /\ last'.changed
               /\ \A k \in 1..Len(callbacks) :
                    Cardinality(InvocationsIn(invoked', k, last'.event)) = 1
       /\ \A p \in Paths :
            (IsTrackOf(p) /\ last' # last /\ ~HoldsChange(p)) => invoked' = invoked
       /\ \A k \in 1..Len(callbacks) :
            \A j \in DOMAIN invoked' :
                invoked'[j].listener = k
                => Cardinality(InvocationsIn(invoked', k, invoked'[j].event)) = 1]_vars

\* C18: during a fan-out the listeners are invoked one at a time, in
\* registration order, and at most one listener is executing at any moment,
\* also after a listener was given up on at its timeout.
C18_OneListenerAtATime ==
    /\ Cardinality(executing) <= 1
    /\ \A j, k \in DOMAIN invoked :
          (j < k /\ invoked[j].event = invoked[k].event)
          => invoked[j].listener < invoked[k].listener

\* The chunks of a sequence, as a set.
ChunkSet(chunk_list) == {chunk_list[i] : i \in DOMAIN chunk_list}

\* The old chunks the call compares against: none without an old version or
\* when their retrieval failed.
ComparedOldChunks ==
    IF chunk_call.old_version_id \in {"stored", "version_fails"}
    THEN chunk_call.old_chunks ELSE <<>>

\* C19: detect_chunk_changes classifies by content hash alone: a new chunk
\* whose hash no old chunk has is added; one whose hash an old chunk has at
\* the same chunk_index is unchanged; one whose hash old chunks have at other
\* indexes only is reordered; an old chunk whose hash no new chunk has is
\* removed.  Without an old version every new chunk is added and none removed.
C19_ClassifiedByHash ==
    chunk_diff # <<>> =>
        LET diff == chunk_diff[1]
            old == ComparedOldChunks
            new == ChunksOf("new", chunk_call.new_texts)
            SameAt(c) == \E i \in DOMAIN old :
                            /\ old[i].content_hash = c.content_hash
                            /\ old[i].chunk_index = c.chunk_index
        IN  /\ \A i \in DOMAIN new :
                LET c == new[i]
                IN  /\ c.content_hash \notin HashesOf(old)
                        <=> c \in ChunkSet(diff.added_chunks)
                    /\ SameAt(c) <=> c \in ChunkSet(diff.unchanged_chunks)
                    /\ (c.content_hash \in HashesOf(old) /\ ~SameAt(c))
                        <=> c \in ChunkSet(diff.reordered_chunks)
            /\ \A i \in DOMAIN old :
                old[i].content_hash \notin HashesOf(new)
                    <=> old[i] \in ChunkSet(diff.removed_chunks)
            /\ chunk_call.old_version_id = "none" =>
                /\ diff.added_chunks = new
                /\ diff.removed_chunks = <<>>

\* C20: every segment the chunker returned for the new content is in exactly
\* one of added, unchanged and reordered, so total_chunks = added + unchanged
\* + reordered is the number of segments; removed chunks are not counted.
C20_TotalIsSegmentCount ==
    chunk_diff # <<>> =>
        LET diff == chunk_diff[1]
            new == ChunksOf("new", chunk_call.new_texts)
            InList(c, list) == IF c \in ChunkSet(list) THEN 1 ELSE 0
        IN  /\ \A i \in DOMAIN new :
                InList(new[i], diff.added_chunks)
                    + InList(new[i], diff.unchanged_chunks)
                    + InList(new[i], diff.reordered_chunks) = 1
            /\ Len(diff.added_chunks) + Len(diff.unchanged_chunks)
                    + Len(diff.reordered_chunks) = Len(chunk_call.new_texts)
            /\ total_chunks(diff) = Len(chunk_call.new_texts)

\* A diff with an added, an unchanged, a reordered and a removed chunk.
C20_Witness ==
    /\ chunk_diff # <<>>
    /\ chunk_diff[1].added_chunks # <<>>
    /\ chunk_diff[1].unchanged_chunks # <<>>
    /\ chunk_diff[1].reordered_chunks # <<>>
    /\ chunk_diff[1].removed_chunks # <<>>

\* The call diffs a version's stored chunks against the content they were
\* made from.
SelfDiff ==
    /\ chunk_diff # <<>>
    /\ chunk_call.old_version_id = "stored"
    /\ chunk_call.old_chunks = ChunksOf("old", chunk_call.new_texts)

\* C21 as stated: diffing a version's stored chunks against the same content
\* yields no added chunk, no removed chunk and savings_percentage = 100, for
\* every content, also one with repeated segments or with no segment.
C21_SelfDiffSaves100 ==
    SelfDiff =>
        /\ chunk_diff[1].added_chunks = <<>>
        /\ chunk_diff[1].removed_chunks = <<>>
        /\ savings_percentage(chunk_diff[1]) = Quotient(100, 1)

\* C21 as amended: the same, with savings_percentage = 100 when the content
\* yields at least one segment and 0 when it yields none.
C21_SelfDiffSavesAll ==
    SelfDiff =>
        /\ chunk_diff[1].added_chunks = <<>>
        /\ chunk_diff[1].removed_chunks = <<>>
        /\ savings_percentage(chunk_diff[1]) =
                IF chunk_call.new_texts = <<>> THEN Quotient(0, 1) ELSE Quotient(100, 1)

\* A self-diff of a content with repeated segments, one of which is reported
\* reordered.
C21_Witness ==
    /\ SelfDiff
    /\ chunk_diff[1].reordered_chunks # <<>>
    /\ chunk_diff[1].unchanged_chunks # <<>>

\* C22: savings_percentage is (unchanged + reordered) / total_chunks x 100,
\* is 0 when total_chunks is 0, lies between 0 and 100, and is the value
\* calculate_savings_metrics reports.
C22_SavingsPercentage ==
    chunk_diff # <<>> =>
        LET diff == chunk_diff[1]
            total == Len(diff.added_chunks) + Len(diff.unchanged_chunks)
                        + Len(diff.reordered_chunks)
            kept == Len(diff.unchanged_chunks) + Len(diff.reordered_chunks)
            savings == savings_percentage(diff)
        IN  /\ savings.den > 0
            /\ total = 0 => savings.num = 0
            /\ total > 0 => savings.num * total = kept * 100 * savings.den
            /\ 0 <= savings.num
            /\ savings.num <= 100 * savings.den
            /\ calculate_savings_metrics(diff).savings_percentage = savings

\* A diff with chunks kept, chunks added and chunks removed: the savings are
\* strictly between 0 and 100.
C22_Witness ==
    /\ chunk_diff # <<>>
    /\ chunk_diff[1].added_chunks # <<>>
    /\ chunk_diff[1].removed_chunks # <<>>
    /\ chunk_diff[1].reordered_chunks # <<>>
    /\ savings_percentage(chunk_diff[1]) = Quotient(200, 3)

\* C23: when get_chunks_by_version raises for the old version the diff is
\* still returned, computed as for a document without prior chunks: every
\* new chunk is added, none is removed, unchanged or reordered, and
\* from_version is 0.
C23_RetrievalFailureDegrades ==
    (chunk_diff # <<>> /\ chunk_call.old_version_id = "fails") =>
        /\ chunk_diff[1].added_chunks = ChunksOf("new", chunk_call.new_texts)
        /\ chunk_diff[1].removed_chunks = <<>>
        /\ chunk_diff[1].unchanged_chunks = <<>>
        /\ chunk_diff[1].reordered_chunks = <<>>
        /\ chunk_diff[1].from_version = 0

\* The retrieval failed for a version whose stored chunks share a segment
\* with the new content and hold one the new content lacks.
C23_Witness ==
    /\ chunk_diff # <<>>
    /\ chunk_call.old_version_id = "fails"
    /\ HashesOf(chunk_call.old_chunks) \cap HashesOf(chunk_diff[1].added_chunks) # {}
    /\ HashesOf(chunk_call.old_chunks) \ HashesOf(chunk_diff[1].added_chunks) # {}

\* C24: a track_with_chunks that detects a change, with chunk tracking on,
\* returns the ChangeEvent and the ChunkDiff, and the chunks stored for the new
\* Version are the segments of the new content, one per segment, indexed
\* 0..k-1.
C24_TrackWithChunksStoresSegments ==
    [][\A p \in ChunkPaths :
        (/\ last'.op = "track_with_chunks"
         /\ last'.path = p
         /\ last' # last
         /\ chunk_tracking_enabled
         /\ HoldsChange(p))
        => /\ last'.raised = "none"
           /\ last'.event # NoEvent
           /\ chunk_diff' # <<>>
           /\ LET new_id == <<p, documents'[p].current_version>>
              IN  get_chunks_by_version(chunks', new_id)
                    = ChunksOf(new_id, split_text(fs[p].content))]_vars

\* C25: with chunk tracking on, when track_directory has returned, every file
\* of the batch that can be read and hashed has a Document whose latest
\* Version has at least one stored chunk.
C25_BatchStoresChunks ==
    (/\ batch.pc = "returned"
     /\ batch.on_error = "continue"
     /\ batch.max_workers >= 1
     /\ chunk_tracking_enabled)
    => \A i \in DOMAIN batch.files :
        LET p == batch.files[i]
        IN  Hashable(fs[p])
            => /\ documents[p].exists
               /\ \E c \in chunks :
                    c.version_id = <<p, documents[p].current_version>>

\* C26: get_chunk_diff writes nothing; it returns none when chunk tracking
\* is off, when one of the two version numbers is unknown for the document
\* and when the target version has no stored content; otherwise, no storage
\* call failing, it returns a ChunkDiff from the one requested version number
\* to the other.
C26_GetChunkDiff ==
    [][(NoDiffCall /\ chunk_call' # NoChunkCall) =>
        LET call == chunk_call'
            p == call.document_id
            from_known == get_version_by_number(DB, p, call.from_version) # {}
            to_known == get_version_by_number(DB, p, call.to_version) # {}
            to_stored == Truthy(get_content(DB, <<p, call.to_version>>))
            answered == /\ chunk_tracking_enabled
                        /\ from_known /\ to_known /\ to_stored
        IN  /\ fs' = fs
            /\ DB' = DB
            /\ chunks' = chunks
            /\ uncommitted' = uncommitted
            /\ ~answered => chunk_diff' = <<>>
            /\ (answered /\ ~call.storage_failed)
                => /\ chunk_diff' # <<>>
                   /\ chunk_diff'[1].from_version = call.from_version
                   /\ chunk_diff'[1].to_version = call.to_version]_vars

\* get_chunk_diff returned the diff between two different versions, with a
\* chunk of the older one kept and chunks added.
C26_Witness ==
    /\ ~NoDiffCall
    /\ chunk_diff # <<>>
    /\ chunk_diff[1].from_version # chunk_diff[1].to_version
    /\ chunk_diff[1].unchanged_chunks # <<>>
    /\ chunk_diff[1].added_chunks # <<>>

\* C27: a restore_version(D, V) that returns creates exactly one Version: its
\* number is current_version + 1, its change kind restored, its metadata
\* names V, its content hash and stored content are those of V; the
\* Document's content_hash becomes V's and its current_version and
\* version_count grow by 1.
C27_RestoreCreatesRestoredVersion ==
    [][\A p \in Paths :
        (/\ last'.op = "restore_version"
         /\ last'.path = p
         /\ last' # last
         /\ last'.raised = "none")
        => LET n == last'.version_number
               found == get_version_by_number(DB, p, n)
               V == CHOOSE v \in found : TRUE
               created == versions' \ versions
           IN  /\ found # {}
               /\ Cardinality(created) = 1
               /\ \A v \in created :
                    /\ v.document_id = p
                    /\ v.version_number = documents[p].current_version + 1
                    /\ v.change_type = "restored"
                    /\ v.restored_from = n
                    /\ v.content_hash = V.content_hash
                    /\ get_content(DB', VersionId(v)) = get_content(DB, VersionId(V))
                    /\ Truthy(get_content(DB', VersionId(v)))
               /\ documents'[p].content_hash = V.content_hash
               /\ documents'[p].current_version = documents[p].current_version + 1
               /\ documents'[p].version_count = documents[p].version_count + 1]_vars

\* A restore_version that returned, of a version whose content is not the
\* one the Document held before.
C27_Witness ==
    /\ last.op = "restore_version"
    /\ last.raised = "none"
    /\ \E v, w \in versions :
        /\ v.document_id = last.path /\ w.document_id = last.path
        /\ v.version_number = last.event.version_number
        /\ v.change_type = "restored"
        /\ w.version_number = v.version_number - 1
        /\ w.content_hash # v.content_hash

\* C28: restore_version raises DocumentNotFoundError for an unknown document,
\* VersionNotFoundError for an unknown version number and a content-missing
\* error when the version has no stored content; then no file is written, no
\* Version is created, the Document is unchanged and no listener is invoked.
C28_RestoreFailsCleanly ==
    [][\A p \in Paths :
        (last'.op = "restore_version" /\ last'.path = p /\ last' # last)
        => LET n == last'.version_number
               unknown_document == ~documents[p].exists
               unknown_version == /\ documents[p].exists
                                  /\ get_version_by_number(DB, p, n) = {}
               content_missing == /\ documents[p].exists
                                  /\ get_version_by_number(DB, p, n) # {}
                                  /\ ~Truthy(get_content(DB, <<p, n>>))
           IN  /\ unknown_document => last'.raised = "DocumentNotFoundError"
               /\ unknown_version => last'.raised = "VersionNotFoundError"
               /\ content_missing => last'.raised = "Exception"
               /\ (unknown_document \/ unknown_version \/ content_missing)
                  => /\ fs' = fs
                     /\ DB' = DB
                     /\ last'.event = NoEvent
                     /\ ~last'.emitted
                     /\ invoked' = invoked
                     /\ executing' = executing]_vars

\* A restore_version that failed for a stored version without content.
C28_Witness ==
    /\ last.op = "restore_version"
    /\ last.raised = "Exception"
    /\ get_version_by_number(DB, last.path, last.version_number) # {}

\* The chunk rows of version id that are committed.
CommittedChunks(id) == {c \in chunks \ uncommitted : c.version_id = id}

\* C29: create_chunks_batch is all-or-nothing: the committed chunk rows of a
\* version are none or the whole batch, never a part of a batch that failed.
C29_BatchAllOrNothing ==
    \A v \in versions :
        CommittedChunks(VersionId(v)) # {}
        => /\ Truthy(get_content(DB, VersionId(v)))
           /\ CommittedChunks(VersionId(v))
                = ChunkSet(ChunksOf(VersionId(v), split_text(content[VersionId(v)])))

\* C30: with content storage on, every Version a creation, modification or
\* restore made has its content blob, the content its hash was computed from,
\* whatever the content, the empty one included.
C30_EveryVersionHasItsContent ==
    store_content =>
        \A v \in versions :
            v.change_type \in {"created", "modified", "restored"}
            => /\ VersionId(v) \in DOMAIN content
               /\ _compute_hash(content[VersionId(v)]) = v.content_hash

\* The latest stored Version of p, by version number, is a deleted Version.
LatestIsDeleted(db, p) ==
    LET mine == {v \in db.versions : v.document_id = p}
    IN  /\ mine # {}
        /\ \A v \in mine :
              (\A w \in mine : w.version_number <= v.version_number)
                  => v.change_type = "deleted"

\* C34: a content change is never silently lost: when the detection of a
\* creation or modification of p fails with a storage error, a later
\* detection of the same still-changed file reports the change and records a
\* Version with the hash of that content.
C34_ChangeNeverLost ==
    [][\A p \in FaultPaths :
        (/\ IsDetectOf(p)
         /\ last'.raised = "StorageError"
         /\ Hashable(fs[p])
         /\ \/ ~documents[p].exists
            \/ HashChanged(documents[p], _compute_hash(fs[p].content)))
        => LET later == detect_change(DB', p, fs'[p], NoFault)
           IN  /\ later.raised = "none"
               /\ later.event # NoEvent
               /\ \E v \in later.db.versions \ versions' :
                    /\ v.document_id = p
                    /\ v.content_hash = _compute_hash(fs[p].content)]_vars

\* C35: when the latest Version of a Document is a deleted Version and the
\* file is there again, the next detection records a new Version whatever
\* the content, so that the latest Version is then no deleted Version.
C35_ReappearanceRecorded ==
    [][\A p \in Paths :
        (/\ IsDetectOf(p)
         /\ last'.raised = "none"
         /\ Hashable(fs[p])
         /\ documents[p].exists
         /\ LatestIsDeleted(DB, p))
        => /\ \E v \in versions' \ versions : v.document_id = p
           /\ ~LatestIsDeleted(DB', p)]_vars

\* C36: once a deleted Version is the latest Version of a Document, a
\* detection run while the file is still missing creates no Version and
\* leaves the Document as it is.
C36_DeletionDetectionIdempotent ==
    [][\A p \in Paths :
        (/\ IsDetectOf(p)
         /\ ~fs[p].exists
         /\ documents[p].exists
         /\ LatestIsDeleted(DB, p))
        => /\ versions' = versions
           /\ documents' = documents
           /\ last'.raised = "none"
           /\ ~last'.changed]_vars

\* C37: after a restore_version that returned, the detection a track of the
\* Document's path runs reports no change and creates no Version when the
\* restore wrote to that path; and when the restore left the file at that
\* path as it was, a file that was in step with the Document before the
\* restore is not reported as changed after it.
C37_RestoreThenTrackConsistent ==
    [][\A p \in Paths :
        (/\ last'.op = "restore_version"
         /\ last'.path = p
         /\ last'.raised = "none")
        => LET before == detect_change(DB, p, fs[p], NoFault)
               after == detect_change(DB', p, fs'[p], NoFault)
           IN  /\ last'.event.file_path = p
                    => /\ after.raised = "none"
                       /\ after.event = NoEvent
                       /\ after.db = DB'
               /\ (/\ last'.event.file_path # p
                   /\ fs'[p] = fs[p]
                   /\ before.raised = "none"
                   /\ before.event = NoEvent)
                    => /\ after.raised = "none"
                       /\ after.event = NoEvent
                       /\ after.db = DB']_vars

\* C39: with chunk tracking on and store_chunk_content = false,
\* track_with_chunks still persists the chunk records of each new Version: a
\* track_with_chunks that detects a change leaves the segments of the new
\* content stored as the new Version's chunks, and for every diff of a new
\* Version the chunks handed to the storage are all the chunks of that
\* Version, so that the next diff has them to compare against.
C39_ChunkRecordsKeptWithoutContent ==
    [][/\ \A p \in ChunkPaths :
            (/\ last'.op = "track_with_chunks"
             /\ last'.path = p
             /\ last' # last
             /\ chunk_tracking_enabled
             /\ HoldsChange(p))
            => LET new_id == <<p, documents'[p].current_version>>
               IN  /\ documents'[p].exists
                   /\ {[chunk_index |-> c.chunk_index, content_hash |-> c.content_hash] :
                            c \in {d \in chunks' : d.version_id = new_id}}
                       = {[chunk_index |-> i - 1,
                           content_hash |-> _hash(split_text(fs[p].content)[i])] :
                            i \in DOMAIN split_text(fs[p].content)}
       /\ (chunk_diff = <<>> /\ chunk_diff' # <<>>)
            => ChunkSet(chunks_to_store(chunk_diff'[1], FALSE))
                = ChunkSet(chunk_diff'[1].added_chunks)
                    \cup ChunkSet(chunk_diff'[1].unchanged_chunks)
                    \cup ChunkSet(chunk_diff'[1].reordered_chunks)]_vars

\* C40: when several old chunks have the same content hash, a new chunk whose
\* hash and chunk_index are those of one of the old chunks is unchanged, not
\* reordered.
C40_DuplicateHashesByPosition ==
    chunk_diff # <<>> =>
        LET diff == chunk_diff[1]
            old == ComparedOldChunks
            new == ChunksOf("new", chunk_call.new_texts)
        IN  \A i \in DOMAIN new :
                (/\ \E j, k \in DOMAIN old :
                        /\ j # k
                        /\ old[j].content_hash = new[i].content_hash
                        /\ old[k].content_hash = new[i].content_hash
                 /\ \E j \in DOMAIN old :
                        /\ old[j].content_hash = new[i].content_hash
                        /\ old[j].chunk_index = new[i].chunk_index)
                => /\ new[i] \in ChunkSet(diff.unchanged_chunks)
                   /\ new[i] \notin ChunkSet(diff.reordered_chunks)

\* No content blob and no chunk without its Version (db, rows: the tables).
Orphanless(db, rows) ==
    LET ids == {VersionId(v) : v \in db.versions}
    IN  /\ DOMAIN db.content \subseteq ids
        /\ \A c \in rows : c.version_id \in ids

\* Nothing of document p is stored.
NothingOf(db, rows, p) ==
    /\ \A v \in db.versions : v.document_id # p
    /\ \A id \in DOMAIN db.content : id[1] # p
    /\ \A c \in rows : c.version_id[1] # p

AllButHighest(db, p, n) ==
    LET mine == {v \in db.versions : v.document_id = p}
    IN  {v \in mine :
            Cardinality({w \in mine : w.version_number > v.version_number}) >= n}

CurrentStored(db) ==
    {p \in Paths :
        /\ db.documents[p].exists
        /\ get_version_by_number(db, p, db.documents[p].current_version) # {}}

\* C38: retention cleanup never removes a Document's latest Version: in every
\* state of the storage, after cleanup_old_versions with keep_count >= 1 and
\* after cleanup_by_age, whatever the age, the current_version of every
\* Document that referred to a stored Version still does.
C38_CleanupKeepsLatest ==
    /\ \A p \in Paths : \A keep_count \in 1..MaxRetained :
            CurrentStored(DB)
                \subseteq CurrentStored(cleanup_old_versions(backend, Tables, p, keep_count).db)
    /\ \A older \in 0..Len(timeline) :
            CurrentStored(DB) \subseteq CurrentStored(cleanup_by_age(backend, Tables, older).db)

====
